---- MODULE Spec2Model ----
(***************************************************************************)
(* Streaming ASR + online diarization core of NeMo:                        *)
(*   - the LCS token merge of streaming_utils.py                           *)
(*     (longest_common_subsequence_merge, lcs_alignment_merge_buffer,      *)
(*      inplace_buffer_merge);                                             *)
(*   - the streaming session of diarization_utils.py (ASR_DIAR_ONLINE).    *)
(* Token ids and word ids are small integers.  Times are integers in       *)
(* milliseconds; Round2 is Python's round(x, 2) on seconds.                *)
(***************************************************************************)
EXTENDS Integers, Sequences, FiniteSets, TLC

VARIABLES
    \* ---- LCS merge calls (streaming_utils.py) ----
    buffer,          \* token ids already emitted (argument `buffer`)
    data,            \* token ids of the new chunk (argument `data`)
    delay,           \* argument `delay` / `timesteps` of the last call
    max_steps_per_timestep, \* argument of the last lcs_alignment_merge_buffer call
    op,              \* which function was called last: "none", "lcs", "merge", "inplace"
    ret,             \* what the last call computed and returned
    \* ---- streaming session (diarization_utils.py, ASR_DIAR_ONLINE) ----
    audio_buffer,    \* self.audio_buffer: 2*n_frame_overlap + n_frame_len samples
    frame_index,     \* self.frame_index
    frame_start,     \* self.frame_start (ms)
    buffer_start,    \* self.buffer_start: None or <<ms>>
    buffer_end,      \* self.buffer_end: None (not set yet) or <<ms>>
    word_seq,        \* self.word_seq
    word_ts_seq,     \* self.word_ts_seq: sequence of <<start, end>> (ms)
    last,            \* the last call on the session: its arguments, what the
                     \* collaborators returned and the error it raised
    \* ---- audio_queue_launcher (diarization_utils.py, ASR_DIAR_ONLINE) ----
    audio_queue_buffer, \* self.audio_queue_buffer: samples not yet cut into frames
    launcher_end_time,  \* self.launcher_end_time (s)
    now,             \* time.time() (s)
    pc,              \* "idle", or "launcher" inside audio_queue_launcher's loop
    hist,            \* history of the launcher: samples received and handed on
    \* ---- feature frame bufferers (streaming_utils.py) ----
    fb,              \* a FeatureFrameBufferer object: its fields
    bfb,             \* a BatchedFeatureFrameBufferer object: its fields
    fbret,           \* the last call on a bufferer and what it returned
    rnnt,            \* a BatchedFrameASRRNNT (its frame_bufferer is bfb)
    afi,             \* an AudioFeatureIterator and the frames it has returned
    online,          \* the timestamps of an ASR_DIAR_ONLINE of a drawn configuration
    \* ---- word timestamp functions (diarization_utils.py) ----
    wt,              \* the last call of a word timestamp function: the
                     \* caller's list before and after, and what it returned
    \* ---- wall clock of a streaming step (diarization_utils.py) ----
    rt               \* enforce_real_time and the times of the last
                     \* streaming_step, in ms from its start

mergeVars == <<buffer, data, delay, max_steps_per_timestep, op, ret>>
sessionVars == <<audio_buffer, frame_index, frame_start, buffer_start,
                 buffer_end, word_seq, word_ts_seq>>
launcherVars == <<audio_queue_buffer, launcher_end_time, now, pc, hist>>
vars == <<buffer, data, delay, max_steps_per_timestep, op, ret,
          audio_buffer, frame_index, frame_start, buffer_start,
          buffer_end, word_seq, word_ts_seq, last,
          audio_queue_buffer, launcher_end_time, now, pc, hist,
          fb, bfb, fbret, rnnt, afi, online, wt, rt>>
buffererVars == <<fb, bfb, fbret, rnnt, afi, online>>
wordTsVars == <<wt>>
realTimeVars == <<rt>>

----------------------------------------------------------------------------
(* Bounds of the model *)
NumTok == 2          \* token ids are 1..NumTok
MaxLen == 3          \* longest token sequence drawn for buffer and data
MaxDelay == 2        \* delay is drawn from 0..MaxDelay
MaxSteps == 2        \* max_steps_per_timestep is drawn from 1..MaxSteps

(* The scenario of the specification: X = [5,6,7,2,3], Y = [2,3,8,9] *)
ScenarioX == <<5, 6, 7, 2, 3>>
ScenarioY == <<2, 3, 8, 9>>

Tokens == 1..NumTok
SeqsUpTo(S, n) == UNION {[1..k -> S] : k \in 0..n}
TokenSeqs == SeqsUpTo(Tokens, MaxLen)

Max(a, b) == IF a >= b THEN a ELSE b
Min(a, b) == IF a <= b THEN a ELSE b

(* Python's s[k:] for any integer k (a negative k counts from the end) *)
PySliceFrom(s, k) ==
    LET start == IF k >= 0 THEN Min(k, Len(s)) ELSE Max(Len(s) + k, 0)
    IN  SubSeq(s, start + 1, Len(s))

----------------------------------------------------------------------------
(* longest_common_subsequence_merge *)

MIN_MERGE_SUBSEQUENCE_LEN == 1

(* One cell of the table LCSuff for X, Y (1-based sequences: X[i] is the   *)
(* code's X[i - 1]).                                                       *)
RECURSIVE LCSuffCellKeepOnMismatch(_, _, _, _)
LCSuffCellKeepOnMismatch(X, Y, i, j) ==
    IF i = 0 \/ j = 0 THEN 0
    ELSE IF X[i] = Y[j] THEN LCSuffCellKeepOnMismatch(X, Y, i - 1, j - 1) + 1
    ELSE LCSuffCellKeepOnMismatch(X, Y, i - 1, j - 1)

RECURSIVE LCSuffCell(_, _, _, _)
LCSuffCell(X, Y, i, j) ==
    IF i = 0 \/ j = 0 THEN 0
    ELSE IF X[i] = Y[j] THEN LCSuffCell(X, Y, i - 1, j - 1) + 1
    ELSE 0

LCSuffTable(X, Y) ==
    [i \in 0..Len(X) |-> [j \in 0..Len(Y) |-> LCSuffCell(X, Y, i, j)]]

(* A table access is in range when both indices are inside the table;     *)
(* Python would raise IndexError (or wrap a negative index) otherwise.     *)
InRange(L, i, j) == i \in DOMAIN L /\ j \in DOMAIN L[i]
Cell(L, i, j) == IF InRange(L, i, j) THEN L[i][j] ELSE 0

(* The row-major scan that keeps result and result_idx = [i, j, result];  *)
(* k enumerates the cells (i, j) = (k \div (n+1), k % (n+1)).              *)
RECURSIVE ScanResultIdxTieFirst(_, _, _, _, _)
ScanResultIdxTieFirst(L, m, n, k, acc) ==
    IF k >= (m + 1) * (n + 1) THEN acc
    ELSE LET i == k \div (n + 1)
             j == k % (n + 1)
         IN  IF L[i][j] > 0 /\ acc[3] < L[i][j]
             THEN ScanResultIdxTieFirst(L, m, n, k + 1, <<i, j, L[i][j]>>)
             ELSE ScanResultIdxTieFirst(L, m, n, k + 1, acc)

RECURSIVE ScanResultIdx(_, _, _, _, _)
ScanResultIdx(L, m, n, k, acc) ==
    IF k >= (m + 1) * (n + 1) THEN acc
    ELSE LET i == k \div (n + 1)
             j == k % (n + 1)
         IN  IF L[i][j] > 0 /\ acc[3] <= L[i][j]
             THEN ScanResultIdx(L, m, n, k + 1, <<i, j, L[i][j]>>)
             ELSE ScanResultIdx(L, m, n, k + 1, acc)

(* Complete merge: backtrack along the diagonal to the origin of the run. *)
(* `length` is a local of the loop; result_idx[-1] is left as it was.      *)
RECURSIVE CompleteBacktrackNoBreakStep(_, _, _, _)
CompleteBacktrackNoBreakStep(L, i, j, length) ==
    IF length >= 0 /\ i > 0 /\ j > 0
    THEN IF Cell(L, i - 1, j - 1) > 0
         THEN CompleteBacktrackNoBreakStep(L, i - 1, j - 1, length - 1)
         ELSE [i |-> i, j |-> j, oob |-> ~InRange(L, i - 1, j - 1)]
    ELSE [i |-> i, j |-> j, oob |-> FALSE]

RECURSIVE CompleteBacktrack(_, _, _, _)
CompleteBacktrack(L, i, j, length) ==
    IF length >= 0 /\ i > 0 /\ j > 0
    THEN IF Cell(L, i - 1, j - 1) > 0
         THEN CompleteBacktrack(L, i - 1, j - 1, length - 1)
         ELSE [i |-> i - 1, j |-> j - 1, oob |-> ~InRange(L, i - 1, j - 1)]
    ELSE [i |-> i, j |-> j, oob |-> FALSE]

(* (1) Backward search for the leftmost LCS: rows m..0, columns 0..n.      *)
(* k enumerates (i_idx, j_idx) = (m - k \div (n+1), k % (n+1)).            *)
RECURSIVE LeftmostLCS(_, _, _, _, _)
LeftmostLCS(L, m, n, k, acc) ==
    IF k >= (m + 1) * (n + 1) THEN acc
    ELSE LET i_idx == m - (k \div (n + 1))
             j_idx == k % (n + 1)
         IN  IF L[i_idx][j_idx] > acc.max_j /\ j_idx <= acc.max_j_idx
             THEN LeftmostLCS(L, m, n, k + 1,
                      [max_j |-> L[i_idx][j_idx], max_j_idx |-> j_idx,
                       i_partial |-> i_idx, j_partial |-> j_idx])
             ELSE LeftmostLCS(L, m, n, k + 1, acc)

(* (2) Greedy expansion: the inner loop over j_idx of one row i_idx.       *)
RECURSIVE ExpandRow(_, _, _, _, _, _)
ExpandRow(L, n, i_idx, j_idx, j_hi, st) ==
    IF j_idx > j_hi THEN st
    ELSE IF j_idx < n + 1
         THEN IF Cell(L, i_idx, j_idx) = 0
              THEN ExpandRow(L, n, i_idx, j_idx + 1, j_hi,
                       [st EXCEPT !.j_any_skip = 1,
                                  !.oob = st.oob \/ ~InRange(L, i_idx, j_idx)])
              ELSE ExpandRow(L, n, i_idx, j_idx + 1, j_hi,
                       [st EXCEPT !.j_exp = 1 + st.j_skip + st.j_any_skip])
         ELSE ExpandRow(L, n, i_idx, j_idx + 1, j_hi, st)

(* The outer loop over i_idx in range(i_temp, m + 1). *)
RECURSIVE ExpandDiagonal(_, _, _, _, _, _)
ExpandDiagonal(L, m, n, i_idx, j_temp, st) ==
    IF i_idx > m THEN st
    ELSE LET row == ExpandRow(L, n, i_idx, j_temp, j_temp + st.j_skip,
                              [st EXCEPT !.j_any_skip = 0])
         IN  ExpandDiagonal(L, m, n, i_idx + 1, j_temp + 1,
                 [row EXCEPT !.j_skip = row.j_skip + row.j_any_skip])

(* (3) Partial backward trace counting diagonal steps and skips. *)
RECURSIVE PartialBacktrack(_, _)
PartialBacktrack(L, st) ==
    IF st.i_partial > 0 /\ st.j_partial > 0
    THEN LET skip == Cell(L, st.i_partial, st.j_partial) = 0
             bad == ~InRange(L, st.i_partial, st.j_partial)
             j1 == IF skip THEN st.j_partial - 1 ELSE st.j_partial
             s1 == IF skip THEN st.j_skip + 1 ELSE st.j_skip
         IN  IF j1 > 0
             THEN PartialBacktrack(L,
                      [i_partial |-> st.i_partial - 1, j_partial |-> j1 - 1,
                       j_skip |-> s1, slice_count |-> st.slice_count + 1,
                       oob |-> st.oob \/ bad])
             ELSE PartialBacktrack(L,
                      [st EXCEPT !.j_partial = j1, !.j_skip = s1,
                                 !.oob = st.oob \/ bad])
    ELSE st

(* EARLY EXIT when the leftmost longest run is not longer than the         *)
(* minimum merge length: nothing is sliced.                                *)
EarlyExitKeepJ(lm) ==
    [i |-> lm.i_partial, j |-> lm.j_partial, slice_len |-> 0]

EarlyExit(lm) ==
    [i |-> lm.i_partial, j |-> 0, slice_len |-> 0]

(* The part of longest_common_subsequence_merge after the table LCSuff has *)
(* been built and the scan has left the tracked cell in result_idx.  What  *)
(* it returns is result_idx = [i, j, slice_len] and the table LCSuff; the  *)
(* record also keeps the tracked cell (i_star, j_star, len_star),          *)
(* is_complete_merge, the length max_j and column max_j_idx selected by    *)
(* the backward search, and whether any table access was out of range.     *)
(* The backward search is run once and its result held in lm.              *)
lcs_merge_result(LCSuff, m, n, result_idx) ==
    LET is_complete_merge == result_idx[1] = m
        base == [i_star |-> result_idx[1], j_star |-> result_idx[2],
                 len_star |-> result_idx[3],
                 is_complete_merge |-> is_complete_merge,
                 LCSuff |-> LCSuff]
        partial(lm) ==
            IF lm.max_j <= MIN_MERGE_SUBSEQUENCE_LEN
            THEN base @@ EarlyExit(lm) @@
                         [max_j |-> lm.max_j,
                          max_j_idx |-> lm.max_j_idx, oob |-> FALSE]
            ELSE LET ex == ExpandDiagonal(LCSuff, m, n, lm.i_partial + 1,
                               lm.j_partial + 1,
                               [j_exp |-> 0, j_skip |-> 0,
                                j_any_skip |-> 0, oob |-> FALSE])
                     bt == PartialBacktrack(LCSuff,
                               [i_partial |-> lm.i_partial,
                                j_partial |-> lm.j_partial + ex.j_exp,
                                j_skip |-> 0, slice_count |-> 0,
                                oob |-> ex.oob])
                 IN  base @@ [i |-> Max(0, bt.i_partial),
                              j |-> Max(0, bt.j_partial),
                              slice_len |-> bt.slice_count + bt.j_skip,
                              max_j |-> lm.max_j,
                              max_j_idx |-> lm.max_j_idx,
                              oob |-> bt.oob]
    IN  IF is_complete_merge
        THEN LET bt == CompleteBacktrack(LCSuff, result_idx[1], result_idx[2],
                                         result_idx[3])
             IN  base @@ [i |-> bt.i, j |-> bt.j, slice_len |-> result_idx[3],
                          max_j |-> 0, max_j_idx |-> n, oob |-> bt.oob]
        ELSE CHOOSE r \in
                 {partial(lm) :
                     lm \in {LeftmostLCS(LCSuff, m, n, 0,
                                 [max_j |-> 0, max_j_idx |-> n,
                                  i_partial |-> m, j_partial |-> -1])}} : TRUE

(* longest_common_subsequence_merge(X, Y): the table is built and scanned  *)
(* once.                                                                   *)
longest_common_subsequence_merge(X, Y) ==
    CHOOSE r \in
        UNION {{lcs_merge_result(LCSuff, Len(X), Len(Y), result_idx) :
                   result_idx \in {ScanResultIdx(LCSuff, Len(X), Len(Y), 0,
                                                 <<0, 0, 0>>)}} :
               LCSuff \in {LCSuffTable(X, Y)}} : TRUE

----------------------------------------------------------------------------
(* lcs_alignment_merge_buffer and inplace_buffer_merge *)

(* Fields of `ret` when longest_common_subsequence_merge was not called *)
NoLcs == [i |-> -1, j |-> -1, slice_len |-> -1, i_star |-> -1, j_star |-> -1,
          len_star |-> -1, is_complete_merge |-> FALSE, max_j |-> -1,
          max_j_idx |-> -1, LCSuff |-> <<>>, oob |-> FALSE]

(* The returned buffer, the slice X handed to the LCS merge, its result   *)
(* and the index slice_idx = j + slice_len at which data is cut.           *)
lcs_alignment_merge_bufferKeepAll(buf, dat, dly, steps) ==
    IF dly < 1
    THEN [out |-> buf \o dat, called |-> FALSE, X |-> <<>>, slice_idx |-> 0,
          lcs |-> NoLcs]
    ELSE IF Len(buf) = 0
    THEN [out |-> buf \o dat, called |-> FALSE, X |-> <<>>, slice_idx |-> 0,
          lcs |-> NoLcs]
    ELSE LET search_size == dly * steps
             buffer_slice == PySliceFrom(buf, -search_size)
             lcs_idx == longest_common_subsequence_merge(buffer_slice, dat)
             slice_idx == lcs_idx.j + lcs_idx.slice_len
         IN  [out |-> buf \o dat, called |-> TRUE,
              X |-> buffer_slice, slice_idx |-> slice_idx, lcs |-> lcs_idx]

lcs_alignment_merge_bufferNoDelayCheck(buf, dat, dly, steps) ==
    IF Len(buf) = 0
    THEN [out |-> buf \o dat, called |-> FALSE, X |-> <<>>, slice_idx |-> 0,
          lcs |-> NoLcs]
    ELSE LET search_size == dly * steps
             buffer_slice == PySliceFrom(buf, -search_size)
             lcs_idx == longest_common_subsequence_merge(buffer_slice, dat)
             slice_idx == lcs_idx.j + lcs_idx.slice_len
         IN  [out |-> buf \o PySliceFrom(dat, slice_idx), called |-> TRUE,
              X |-> buffer_slice, slice_idx |-> slice_idx, lcs |-> lcs_idx]

lcs_alignment_merge_buffer(buf, dat, dly, steps) ==
    IF dly < 1
    THEN [out |-> buf \o dat, called |-> FALSE, X |-> <<>>, slice_idx |-> 0,
          lcs |-> NoLcs]
    ELSE IF Len(buf) = 0
    THEN [out |-> buf \o dat, called |-> FALSE, X |-> <<>>, slice_idx |-> 0,
          lcs |-> NoLcs]
    ELSE LET search_size == dly * steps
             buffer_slice == PySliceFrom(buf, -search_size)
             lcs_idx == longest_common_subsequence_merge(buffer_slice, dat)
             slice_idx == lcs_idx.j + lcs_idx.slice_len
         IN  [out |-> buf \o PySliceFrom(dat, slice_idx), called |-> TRUE,
              X |-> buffer_slice, slice_idx |-> slice_idx, lcs |-> lcs_idx]

inplace_buffer_merge(buf, dat, timesteps) ==
    IF timesteps < 1
    THEN [out |-> buf \o dat, called |-> FALSE, X |-> <<>>, slice_idx |-> 0,
          lcs |-> NoLcs]
    ELSE IF Len(buf) = 0
    THEN [out |-> buf \o dat, called |-> FALSE, X |-> <<>>, slice_idx |-> 0,
          lcs |-> NoLcs]
    ELSE [out |-> buf \o dat, called |-> FALSE, X |-> <<>>, slice_idx |-> 0,
          lcs |-> NoLcs]

----------------------------------------------------------------------------
(* FeatureFrameBufferer and BatchedFeatureFrameBufferer *)

(* Bounds of the bufferer model *)
MaxFeaturesLen == 7      \* an AudioFeatureIterator holds 0..MaxFeaturesLen feature columns
MaxFeatureFrameLen == 3  \* and returns frames of 1..MaxFeatureFrameLen columns
MaxHalfSecondsOverlap == 5   \* frame_overlap is 0, 0.5, ... MaxHalfSecondsOverlap / 2 s
MaxOnlineSteps == 3          \* run_step is called at most MaxOnlineSteps times between resets
MaxSegments == 3     \* a diarization output has 1..MaxSegments segments
MaxDictWords == 2    \* get_word_dict_seq_list is given 0..MaxDictWords words
MaxPreds == 4        \* greedy_merge is given 0..MaxPreds predictions
MaxReaderFrames == 3 \* a frame reader holds 0..MaxReaderFrames frames
MaxReaders == 2      \* set_frame_reader is called at most MaxReaders times

(* Configuration of the bufferers *)
fb_n_frame_len == 2        \* self.n_frame_len: columns of a frame
total_buffer_len == 5      \* columns of self.buffer
n_feat == 2                \* self.n_feat: rows of a frame and of the buffer
batch_size == 2            \* self.batch_size
ZERO_LEVEL_SPEC_DB_VAL == -16635   \* -16.635, in thousandths

(* A 2-d array is a sequence of rows; its shape is the number of rows and  *)
(* the length of every row.                                                *)
Matrix(rows, cols, v) == [r \in 1..rows |-> [c \in 1..cols |-> v]]
Shape(M) == <<Len(M), [r \in 1..Len(M) |-> Len(M[r])]>>
ShapeOf(rows, cols) == <<rows, [r \in 1..rows |-> cols]>>

(* The id-th frame a frame reader yields and its VAD mask: n_feat rows of  *)
(* n_frame_len columns, every entry distinct from the silence value.       *)
FeatureFrame(id) ==
    [r \in 1..n_feat |-> [c \in 1..fb_n_frame_len |-> 100 * id + 10 * r + c]]
VadMaskFrame(id) == Matrix(n_feat, fb_n_frame_len, id % 2 = 0)
FrameId(frame) == frame[1][1] \div 100

(* buffer[:, :-n] = buffer[:, n:], in place *)
ShiftLeft(M, n) ==
    [r \in 1..Len(M) |->
        [c \in 1..Len(M[r]) |->
            IF c <= Len(M[r]) - n THEN M[r][c + n] ELSE M[r][c]]]

(* buffer[:, -n:] = frame, in place, for a frame of n columns *)
WriteTail(M, n, frame) ==
    [r \in 1..Len(M) |->
        [c \in 1..Len(M[r]) |->
            IF c > Len(M[r]) - n THEN frame[r][c - (Len(M[r]) - n)]
            ELSE M[r][c]]]

(* What a list of buffers holds: np.copy(self.buffer) is an array of its   *)
(* own; a reference to self.buffer would show the buffer's later content.  *)
Copy(M) == [ref |-> FALSE, val |-> M]
Deref(o, item) == IF item.ref THEN o.buffer ELSE item.val

(* FeatureFrameBufferer.__init__, which ends with reset().  feature_buffer *)
(* and buffered_features_size, the state of the normalisation, are left    *)
(* out: normalised buffers are marked, their values are not computed.      *)
FeatureFrameBufferer(normalize_feature) ==
    [normalize_feature |-> normalize_feature,
     batch_size |-> batch_size,
     buffer |-> Matrix(n_feat, total_buffer_len, ZERO_LEVEL_SPEC_DB_VAL),
     vad_mask_buffer |-> Matrix(n_feat, total_buffer_len, FALSE),
     signal_end |-> FALSE,
     frame_reader |-> <<>>,
     frame_buffers |-> <<>>,
     vad_mask_buffers |-> <<>>,
     buffered_len |-> 0]

(* FeatureFrameBufferer.reset() *)
fb_reset(o) ==
    [o EXCEPT !.buffer = Matrix(Len(o.buffer), Len(o.buffer[1]),
                                ZERO_LEVEL_SPEC_DB_VAL),
              !.vad_mask_buffer = Matrix(Len(o.buffer), Len(o.buffer[1]), FALSE),
              !.frame_buffers = <<>>,
              !.buffered_len = 0]

(* set_frame_reader(frame_reader): the reader is the sequence of the       *)
(* (frame, vad mask) pairs it has not yielded yet.                         *)
set_frame_reader(o, frame_reader) ==
    [o EXCEPT !.frame_reader = <<frame_reader>>, !.signal_end = FALSE]

(* get_batch_frames() *)
get_batch_framesNoSignalEnd(o) ==
    IF o.signal_end
    THEN [o |-> o, batch_frames |-> <<>>, batch_vad_masks |-> <<>>,
          error |-> "none"]
    ELSE IF o.frame_reader = <<>>
    THEN [o |-> o, batch_frames |-> <<>>, batch_vad_masks |-> <<>>,
          error |-> "frame_reader_is_none"]
    ELSE LET rest == o.frame_reader[1]
             take == Min(o.batch_size, Len(rest))
         IN  [o |-> [o EXCEPT !.frame_reader = <<PySliceFrom(rest, take)>>],
              batch_frames |-> [k \in 1..take |-> rest[k].frame],
              batch_vad_masks |-> [k \in 1..take |-> rest[k].frame_vad_mask],
              error |-> "none"]

get_batch_frames(o) ==
    IF o.signal_end
    THEN [o |-> o, batch_frames |-> <<>>, batch_vad_masks |-> <<>>,
          error |-> "none"]
    ELSE IF o.frame_reader = <<>>
    THEN [o |-> o, batch_frames |-> <<>>, batch_vad_masks |-> <<>>,
          error |-> "frame_reader_is_none"]
    ELSE LET rest == o.frame_reader[1]
             take == Min(o.batch_size, Len(rest))
         IN  [o |-> [o EXCEPT !.frame_reader = <<PySliceFrom(rest, take)>>,
                              !.signal_end = (take < o.batch_size)],
              batch_frames |-> [k \in 1..take |-> rest[k].frame],
              batch_vad_masks |-> [k \in 1..take |-> rest[k].frame_vad_mask],
              error |-> "none"]

(* The body of the loop of get_frame_buffers for one frame: shift, write  *)
(* the frame into the trailing columns, append a copy of the buffer.       *)
push_frameNoCopy(o, frame) ==
    LET b == WriteTail(ShiftLeft(o.buffer, fb_n_frame_len), fb_n_frame_len, frame)
    IN  [o EXCEPT !.buffer = b,
                  !.buffered_len = @ + Len(frame[1]),
                  !.frame_buffers = Append(@, [ref |-> TRUE, val |-> b])]

push_frameGrow(o, frame) ==
    LET b == [r \in 1..Len(o.buffer) |-> o.buffer[r] \o frame[r]]
    IN  [o EXCEPT !.buffer = b,
                  !.buffered_len = @ + Len(frame[1]),
                  !.frame_buffers = Append(@, Copy(b))]

push_frame(o, frame) ==
    LET b == WriteTail(ShiftLeft(o.buffer, fb_n_frame_len), fb_n_frame_len, frame)
    IN  [o EXCEPT !.buffer = b,
                  !.buffered_len = @ + Len(frame[1]),
                  !.frame_buffers = Append(@, Copy(b))]

RECURSIVE PushFrames(_, _, _)
PushFrames(o, frames, k) ==
    IF k > Len(frames) THEN o
    ELSE PushFrames(push_frame(o, frames[k]), frames, k + 1)

(* get_frame_buffers(frames): the object after the call; the call returns  *)
(* its frame_buffers.                                                      *)
get_frame_buffers(o, frames) ==
    PushFrames([o EXCEPT !.frame_buffers = <<>>], frames, 1)

push_vad_mask(o, vad_mask) ==
    LET b == WriteTail(ShiftLeft(o.vad_mask_buffer, fb_n_frame_len),
                       fb_n_frame_len, vad_mask)
    IN  [o EXCEPT !.vad_mask_buffer = b,
                  !.buffered_len = @ + Len(vad_mask[1]),
                  !.vad_mask_buffers = Append(@, Copy(b))]

RECURSIVE PushVadMasks(_, _, _)
PushVadMasks(o, vad_masks, k) ==
    IF k > Len(vad_masks) THEN o
    ELSE PushVadMasks(push_vad_mask(o, vad_masks[k]), vad_masks, k + 1)

(* get_vad_mask_buffers(vad_masks) *)
get_vad_mask_buffers(o, vad_masks) ==
    PushVadMasks([o EXCEPT !.vad_mask_buffers = <<>>], vad_masks, 1)

(* get_buffers_batch(): with normalize_feature the buffers returned are    *)
(* new, masked and normalised arrays of the same shape.                    *)
get_buffers_batch(o) ==
    LET g == get_batch_frames(o)
        pushed == get_vad_mask_buffers(get_frame_buffers(g.o, g.batch_frames),
                                       g.batch_vad_masks)
    IN  IF g.error # "none" \/ Len(g.batch_frames) = 0
        THEN [o |-> g.o, batch_frames |-> g.batch_frames,
              frame_buffers |-> <<>>, normalized |-> FALSE, error |-> g.error]
        ELSE [o |-> pushed, batch_frames |-> g.batch_frames,
              frame_buffers |-> pushed.frame_buffers,
              normalized |-> o.normalize_feature, error |-> "none"]

(* BatchedFeatureFrameBufferer.__init__: one buffer, one frame reader and  *)
(* one signal_end entry per sample of the batch.  A reader is None or      *)
(* <<the frames it has still to yield>>; signal_end_index[idx] is None or  *)
(* <<buffer number>>.  Sample idx of the code is idx + 1 here.             *)
BatchedFeatureFrameBufferer ==
    [batch_size |-> batch_size,
     buffer |-> [idx \in 1..batch_size |->
                     Matrix(n_feat, total_buffer_len, ZERO_LEVEL_SPEC_DB_VAL)],
     frame_buffers |-> <<>>,
     all_frame_reader |-> [idx \in 1..batch_size |-> <<>>],
     signal_end |-> [idx \in 1..batch_size |-> FALSE],
     signal_end_index |-> [idx \in 1..batch_size |-> <<>>],
     buffer_number |-> 0]

(* BatchedFeatureFrameBufferer.reset() *)
batched_reset(o) ==
    [o EXCEPT !.buffer = [idx \in 1..o.batch_size |->
                             Matrix(Len(o.buffer[idx]), Len(o.buffer[idx][1]),
                                    ZERO_LEVEL_SPEC_DB_VAL)],
              !.frame_buffers = <<>>,
              !.all_frame_reader = [idx \in 1..o.batch_size |-> <<>>],
              !.signal_end = [idx \in 1..o.batch_size |-> FALSE],
              !.signal_end_index = [idx \in 1..o.batch_size |-> <<>>],
              !.buffer_number = 0]

(* BatchedFeatureFrameBufferer.set_frame_reader(frame_reader, idx) *)
batched_set_frame_reader(o, frame_reader, idx) ==
    [o EXCEPT !.all_frame_reader[idx] = <<frame_reader>>,
              !.signal_end[idx] = FALSE,
              !.signal_end_index[idx] = <<>>]

(* The for loop of BatchedFeatureFrameBufferer.get_batch_frames from       *)
(* sample idx on: next() of a reader that was never set raises TypeError   *)
(* and leaves what the loop did for the samples before it.                 *)
RECURSIVE batched_get_batch_frames_loopOverwrite(_, _, _)
batched_get_batch_frames_loopOverwrite(o, idx, batch_frames) ==
    IF idx > o.batch_size
    THEN [o |-> o, batch_frames |-> batch_frames, error |-> "none"]
    ELSE IF o.all_frame_reader[idx] = <<>>
    THEN [o |-> o, batch_frames |-> <<>>, error |-> "frame_reader_is_none"]
    ELSE LET frame_reader == o.all_frame_reader[idx][1]
         IN  IF frame_reader # <<>>
             THEN batched_get_batch_frames_loopOverwrite(
                      [o EXCEPT !.all_frame_reader[idx] = <<Tail(frame_reader)>>],
                      idx + 1, Append(batch_frames, <<Head(frame_reader)>>))
             ELSE batched_get_batch_frames_loopOverwrite(
                      [o EXCEPT !.signal_end[idx] = TRUE,
                                !.signal_end_index[idx] = <<o.buffer_number>>],
                      idx + 1, Append(batch_frames, <<>>))

RECURSIVE batched_get_batch_frames_loop(_, _, _)
batched_get_batch_frames_loop(o, idx, batch_frames) ==
    IF idx > o.batch_size
    THEN [o |-> o, batch_frames |-> batch_frames, error |-> "none"]
    ELSE IF o.all_frame_reader[idx] = <<>>
    THEN [o |-> o, batch_frames |-> <<>>, error |-> "frame_reader_is_none"]
    ELSE LET frame_reader == o.all_frame_reader[idx][1]
         IN  IF frame_reader # <<>>
             THEN batched_get_batch_frames_loop(
                      [o EXCEPT !.all_frame_reader[idx] = <<Tail(frame_reader)>>],
                      idx + 1, Append(batch_frames, <<Head(frame_reader)>>))
             ELSE batched_get_batch_frames_loop(
                      [o EXCEPT !.signal_end[idx] = TRUE,
                                !.signal_end_index[idx] =
                                    IF o.signal_end_index[idx] = <<>>
                                    THEN <<o.buffer_number>> ELSE @],
                      idx + 1, Append(batch_frames, <<>>))

(* BatchedFeatureFrameBufferer.get_batch_frames(): a batch entry is        *)
(* <<frame>> or None.                                                      *)
batched_get_batch_framesWithoutCount(o) ==
    IF \A idx \in 1..o.batch_size : o.signal_end[idx]
    THEN [o |-> o, batch_frames |-> <<>>, error |-> "none"]
    ELSE batched_get_batch_frames_loop(o, 1, <<>>)

batched_get_batch_frames(o) ==
    IF \A idx \in 1..o.batch_size : o.signal_end[idx]
    THEN [o |-> o, batch_frames |-> <<>>, error |-> "none"]
    ELSE LET r == batched_get_batch_frames_loop(o, 1, <<>>)
         IN  IF r.error # "none" THEN r
             ELSE [r EXCEPT !.o.buffer_number = @ + 1]

(* The body of the loop of BatchedFeatureFrameBufferer.get_frame_buffers   *)
(* for sample idx: a frame is pushed, None zeroes the sample's buffer; the *)
(* copy of the sample's buffer is wrapped in a list.                       *)
batched_push_frame(o, idx, frame) ==
    LET b == IF frame # <<>>
             THEN WriteTail(ShiftLeft(o.buffer[idx], fb_n_frame_len),
                            fb_n_frame_len, frame)
             ELSE [r \in 1..Len(o.buffer[idx]) |->
                      [c \in 1..Len(o.buffer[idx][r]) |-> o.buffer[idx][r][c] * 0]]
    IN  [o EXCEPT !.buffer[idx] = b,
                  !.frame_buffers = Append(@, <<Copy(b)>>)]

RECURSIVE BatchedPushFrames(_, _, _)
BatchedPushFrames(o, frames, idx) ==
    IF idx > o.batch_size THEN o
    ELSE BatchedPushFrames(batched_push_frame(o, idx, frames[idx]), frames, idx + 1)

(* BatchedFeatureFrameBufferer.get_frame_buffers(frames) *)
batched_get_frame_buffers(o, frames) ==
    BatchedPushFrames([o EXCEPT !.frame_buffers = <<>>], frames, 1)

(* BatchedFeatureFrameBufferer.get_buffers_batch(): the frames of the     *)
(* batch are pushed into the buffers; the list returned is empty when      *)
(* every sample had ended before the call.                                 *)
batched_get_buffers_batch(o) ==
    LET g == batched_get_batch_frames(o)
    IN  IF g.error # "none" \/ Len(g.batch_frames) = 0
        THEN [o |-> g.o, frame_buffers |-> <<>>, error |-> g.error]
        ELSE LET pushed == batched_get_frame_buffers(g.o,
                               [idx \in 1..o.batch_size |->
                                   IF g.batch_frames[idx] = <<>> THEN <<>>
                                   ELSE g.batch_frames[idx][1].frame])
             IN  [o |-> pushed, frame_buffers |-> pushed.frame_buffers,
                  error |-> "none"]

----------------------------------------------------------------------------
(* BatchedFrameASRRNNT *)

(* BatchedFrameASRRNNT.__init__ followed by reset(): previous_hypotheses   *)
(* is None or <<the list of hypotheses of the last sub-batch>>;            *)
(* batch_index_map[idx] is a position of a sub-batch.  Sample idx and      *)
(* position k of the code are idx + 1 and k + 1 here.  A hypothesis is     *)
(* known by the sample whose audio it was decoded from and by the sample   *)
(* of the partial hypothesis it continued (0 for none).                    *)
BatchedFrameASRRNNT(stateful_decoding) ==
    [stateful_decoding |-> stateful_decoding,
     all_preds |-> [idx \in 1..batch_size |-> <<>>],
     previous_hypotheses |-> <<>>,
     batch_index_map |-> [idx \in 1..batch_size |-> idx]]

InitRnnt == rnnt = BatchedFrameASRRNNT(FALSE)

(* BatchedFrameASRRNNT.reset(), without the reset of its frame_bufferer *)
rnnt_reset(o) ==
    [o EXCEPT !.all_preds = [idx \in 1..batch_size |-> <<>>],
              !.previous_hypotheses = <<>>,
              !.batch_index_map = [idx \in 1..batch_size |-> idx]]

(* new_batch_keys of _get_batch_preds: the samples whose signal has not    *)
(* ended, in increasing order.                                             *)
new_batch_keys_of(signal_end) ==
    SelectSeq([idx \in 1..batch_size |-> idx], LAMBDA idx : ~signal_end[idx])

(* asr_model.decoding.rnnt_decoder_predictions_tensor(encoded, ...,        *)
(* partial_hypotheses): row k of the sub-batch is decoded from the audio   *)
(* of sample new_batch_keys[k] and continues partial_hypotheses[k].        *)
rnnt_decoder_predictions_tensor(new_batch_keys, partial_hypotheses) ==
    [k \in 1..Len(new_batch_keys) |->
        [sample |-> new_batch_keys[k],
         continued |-> IF partial_hypotheses = <<>> THEN 0
                       ELSE partial_hypotheses[1][k].sample]]

(* "Position map update" of _get_batch_preds *)
position_map_updateAlwaysSkipped(batch_index_map, new_batch_keys) ==
    batch_index_map

position_map_update(batch_index_map, new_batch_keys) ==
    IF Len(new_batch_keys) # Len(batch_index_map)
    THEN [idx \in DOMAIN batch_index_map |->
              IF \E k \in 1..Len(new_batch_keys) : new_batch_keys[k] = idx
              THEN CHOOSE k \in 1..Len(new_batch_keys) : new_batch_keys[k] = idx
              ELSE batch_index_map[idx]]
    ELSE batch_index_map

(* BatchedFrameASRRNNT._get_batch_preds() for the signal_end flags of the  *)
(* frame_bufferer.  previous_hypotheses[old_pos] raises IndexError when    *)
(* old_pos is past the end of the list; nothing was assigned by then.      *)
get_batch_preds(o, signal_end) ==
    LET new_batch_keys == new_batch_keys_of(signal_end)
        filter == o.stateful_decoding /\ o.previous_hypotheses # <<>>
    IN  IF Len(new_batch_keys) = 0
        THEN [o |-> o, decoded |-> FALSE, error |-> "none",
              new_batch_keys |-> new_batch_keys, best_hyp |-> <<>>]
        ELSE IF filter /\ \E k \in 1..Len(new_batch_keys) :
                    o.batch_index_map[new_batch_keys[k]]
                        > Len(o.previous_hypotheses[1])
        THEN [o |-> o, decoded |-> FALSE, error |-> "IndexError",
              new_batch_keys |-> new_batch_keys, best_hyp |-> <<>>]
        ELSE LET new_prev_hypothesis ==
                     [k \in 1..Len(new_batch_keys) |->
                         o.previous_hypotheses[1][
                             o.batch_index_map[new_batch_keys[k]]]]
                 partial_hypotheses ==
                     IF filter THEN <<new_prev_hypothesis>>
                     ELSE o.previous_hypotheses
                 best_hyp == rnnt_decoder_predictions_tensor(
                                 new_batch_keys, partial_hypotheses)
             IN  [o |-> [o EXCEPT
                      !.previous_hypotheses =
                          IF o.stateful_decoding THEN <<best_hyp>>
                          ELSE partial_hypotheses,
                      !.all_preds = [idx \in 1..batch_size |->
                          IF \E k \in 1..Len(new_batch_keys) :
                                 new_batch_keys[k] = idx
                          THEN Append(@[idx],
                                   best_hyp[CHOOSE k \in 1..Len(new_batch_keys) :
                                                new_batch_keys[k] = idx])
                          ELSE @[idx]],
                      !.batch_index_map =
                          position_map_update(@, new_batch_keys)],
                   decoded |-> TRUE, error |-> "none",
                   new_batch_keys |-> new_batch_keys, best_hyp |-> best_hyp]

----------------------------------------------------------------------------
(* AudioFeatureIterator *)

(* The features the preprocessor returned for the samples: n_feat rows of  *)
(* features_len columns, every column distinct and none of them zero; the  *)
(* VAD mask of contruct_vad_mask has the same shape.                       *)
Features(features_len) ==
    [r \in 1..n_feat |-> [c \in 1..features_len |-> 10 * c + r]]
VadMask(features_len) ==
    [r \in 1..n_feat |-> [c \in 1..features_len |-> c % 2 = 0]]

(* M[:, a:b] for 0 <= a <= b <= the number of columns *)
Columns(M, a, b) == [r \in 1..Len(M) |-> [c \in 1..(b - a) |-> M[r][a + c]]]

(* np.zeros([rows, cols]) with [:, 0:samp_len] overwritten by M *)
ZeroPadded(M, rows, cols) ==
    [r \in 1..rows |-> [c \in 1..cols |-> IF c <= Len(M[r]) THEN M[r][c] ELSE 0]]

(* A boolean mask written into a float32 array *)
AsFloat(M) ==
    [r \in 1..Len(M) |-> [c \in 1..Len(M[r]) |-> IF M[r][c] THEN 1 ELSE 0]]

(* AudioFeatureIterator.__init__: _feature_frame_len is frame_len /        *)
(* timestep_duration, a whole number of feature columns here; vad_mask is  *)
(* None when no speech_segments are given.  `returned` lists the frames    *)
(* the calls of __next__ returned and `raised` is what the last call       *)
(* raised.                                                                 *)
AudioFeatureIterator(features_len, feature_frame_len, speech_segments) ==
    [_features |-> Features(features_len),
     _features_len |-> features_len,
     _feature_frame_len |-> feature_frame_len,
     vad_mask |-> IF speech_segments THEN <<VadMask(features_len)>> ELSE <<>>,
     _start |-> 0,
     output |-> TRUE,
     count |-> 0,
     returned |-> <<>>,
     raised |-> "none"]

InitAfi == afi = AudioFeatureIterator(0, 1, FALSE)

(* `if self._start == self._features_len[0]-1: self.output = False` *)
afi_output_after_frame(o, last_col) == ~(last_col = o._features_len - 1) /\ o.output

(* AudioFeatureIterator.__next__(): self.vad_mask[...] raises TypeError    *)
(* when vad_mask is None, before anything is assigned.                     *)
afi_next(o) ==
    LET last_col ==
            o._start + o._feature_frame_len
        rows == Len(o._features)
    IN  IF ~o.output THEN [o EXCEPT !.raised = "StopIteration"]
        ELSE IF o.vad_mask = <<>> THEN [o EXCEPT !.raised = "TypeError"]
        ELSE IF last_col <= o._features_len
        THEN [o EXCEPT
                !._start = last_col,
                !.output = afi_output_after_frame(o, last_col),
                !.count = @ + 1,
                !.raised = "none",
                !.returned = Append(@,
                    [frame |-> Columns(o._features, o._start, last_col),
                     frame_vad_mask |-> Columns(o.vad_mask[1], o._start, last_col)])]
        ELSE [o EXCEPT
                !.output = FALSE,
                !.count = @ + 1,
                !.raised = "none",
                !.returned = Append(@,
                    [frame |-> ZeroPadded(
                                   Columns(o._features, o._start, o._features_len),
                                   rows, o._feature_frame_len),
                     frame_vad_mask |-> ZeroPadded(
                                   AsFloat(Columns(o.vad_mask[1], o._start,
                                                   o._features_len)),
                                   rows, o._feature_frame_len)])]

----------------------------------------------------------------------------
(* FrameBatchASR.greedy_merge *)

(* self.blank_id = len(vocabulary): the id after the last token id *)
blank_id == NumTok + 1

(* The for loop of greedy_merge from preds[k] on (k from 1), with the      *)
(* value of `previous` before it and the ids decoded so far.               *)
RECURSIVE greedy_merge_loopPreviousDecoded(_, _, _, _)
greedy_merge_loopPreviousDecoded(preds, k, previous, decoded_prediction) ==
    IF k > Len(preds) THEN decoded_prediction
    ELSE LET p == preds[k]
         IN  IF (p # previous \/ previous = blank_id) /\ p # blank_id
             THEN greedy_merge_loopPreviousDecoded(preds, k + 1, p,
                      Append(decoded_prediction, p))
             ELSE greedy_merge_loopPreviousDecoded(preds, k + 1, previous,
                      decoded_prediction)

RECURSIVE greedy_merge_loop(_, _, _, _)
greedy_merge_loop(preds, k, previous, decoded_prediction) ==
    IF k > Len(preds) THEN decoded_prediction
    ELSE LET p == preds[k]
         IN  IF (p # previous \/ previous = blank_id) /\ p # blank_id
             THEN greedy_merge_loop(preds, k + 1, p,
                                    Append(decoded_prediction, p))
             ELSE greedy_merge_loop(preds, k + 1, p, decoded_prediction)

(* greedy_merge(preds): the ids handed to tokenizer.ids_to_text *)
greedy_merge(preds) == greedy_merge_loop(preds, 1, blank_id, <<>>)

(* The last call on a bufferer (op, error, the batch of frames and the     *)
(* list of buffers it returned) and the history of the calls: the frames   *)
(* of the current reader (`reader_all`) and those delivered so far, the    *)
(* frames pushed since the last reset, and the first list of buffers that  *)
(* a call returned (`kept`), which its caller still holds.                 *)
NoBuffererCall ==
    [op |-> "init", error |-> "none", batch_frames |-> <<>>,
     frame_buffers |-> <<>>, normalized |-> FALSE, was_signal_end |-> FALSE,
     next_id |-> 1, readers_set |-> 0, reader_all |-> <<>>,
     delivered |-> <<>>, pushed |-> <<>>, kept |-> <<>>]

----------------------------------------------------------------------------
(* ASR_DIAR_ONLINE: configuration and helpers *)

(* Bounds of the session model *)
MaxFrames == 2       \* streaming steps are taken while frame_index < MaxFrames
MaxWords == 1        \* longest word / timestamp list the decoder returns

(* Configuration (cfg.diarizer.asr.parameters and the diarizer), times in ms *)
SampleRate == 2            \* self.sample_rate, samples per second
word_ts_anchor_offset == 0 \* self.word_ts_anchor_offset = 0.0 (ms)
FrameLenMs == 1000         \* self.frame_len
FrameOverlapMs == 1000     \* self.frame_overlap
OnsetDelayMs == 200        \* self.onset_delay_in_sec
WordUpdateMarginPct == 0   \* self.word_update_margin = 0.0, in percent

None == <<>>
Some(v) == <<v>>

(* Python's round(x, 2) of a time in seconds, on milliseconds: the nearest *)
(* multiple of 10 ms, a tie going to the even multiple.                    *)
Round2(x) ==
    LET q == x \div 10
        r == x % 10
    IN  IF r < 5 THEN q * 10
        ELSE IF r > 5 THEN (q + 1) * 10
        ELSE IF q % 2 = 0 THEN q * 10 ELSE (q + 1) * 10

CHUNK_SIZE == (FrameLenMs * SampleRate) \div 1000
n_frame_len == (FrameLenMs * SampleRate) \div 1000
n_frame_overlap == (FrameOverlapMs * SampleRate) \div 1000
audio_buffer_length == 2 * n_frame_overlap + n_frame_len
overlap_frames_count == n_frame_overlap \div SampleRate

Zeros(n) == [k \in 1..n |-> 0]

(* update_audio_frame_input(frame, buffer): pads a short (or None) frame,  *)
(* rejects a long one, sets buffer_start and shifts the buffer in place.   *)
update_audio_frame_inputNoPad(frame, buf, fidx) ==
    LET f0 == IF frame = None THEN Zeros(n_frame_len) ELSE frame
    IN  IF Len(f0) # n_frame_len
        THEN [error |-> "frame_length", buffer |-> buf, set_start |-> FALSE,
              buffer_start |-> 0]
        ELSE [error |-> "none",
              buffer |-> SubSeq(buf, n_frame_len + 1, Len(buf)) \o f0,
              set_start |-> TRUE,
              buffer_start |-> Round2((fidx + 1) * FrameLenMs
                                  - (2 * overlap_frames_count * 1000 + FrameLenMs))]

update_audio_frame_input(frame, buf, fidx) ==
    LET f0 == IF frame = None THEN Zeros(n_frame_len) ELSE frame
        f1 == IF Len(f0) < n_frame_len
              THEN f0 \o Zeros(n_frame_len - Len(f0)) ELSE f0
    IN  IF Len(f1) # n_frame_len
        THEN [error |-> "frame_length", buffer |-> buf, set_start |-> FALSE,
              buffer_start |-> 0]
        ELSE [error |-> "none",
              buffer |-> SubSeq(buf, n_frame_len + 1, Len(buf)) \o f1,
              set_start |-> TRUE,
              buffer_start |-> Round2((fidx + 1) * FrameLenMs
                                  - (2 * overlap_frames_count * 1000 + FrameLenMs))]

(* add_timestamp_offset(words, word_ts, offset): zip, shift, round, and    *)
(* keep the pairs whose shifted end is > 0.                                *)
RECURSIVE add_timestamp_offsetKeepWords(_, _, _, _, _)
add_timestamp_offsetKeepWords(words, word_ts, offset, k, acc) ==
    IF k > Min(Len(words), Len(word_ts)) THEN acc
    ELSE LET word_range == <<Round2(word_ts[k][1] + offset),
                             Round2(word_ts[k][2] + offset)>>
         IN  IF word_range[2] > 0
             THEN add_timestamp_offsetKeepWords(words, word_ts, offset, k + 1,
                      [words |-> Append(acc.words, words[k]),
                       word_ts |-> Append(acc.word_ts, word_range)])
             ELSE add_timestamp_offsetKeepWords(words, word_ts, offset, k + 1,
                      [acc EXCEPT !.words = Append(acc.words, words[k])])

RECURSIVE add_timestamp_offsetNoFilter(_, _, _, _, _)
add_timestamp_offsetNoFilter(words, word_ts, offset, k, acc) ==
    IF k > Min(Len(words), Len(word_ts)) THEN acc
    ELSE LET word_range == <<Round2(word_ts[k][1] + offset),
                             Round2(word_ts[k][2] + offset)>>
         IN  add_timestamp_offsetNoFilter(words, word_ts, offset, k + 1,
                 [words |-> Append(acc.words, words[k]),
                  word_ts |-> Append(acc.word_ts, word_range)])

RECURSIVE add_timestamp_offset(_, _, _, _, _)
add_timestamp_offset(words, word_ts, offset, k, acc) ==
    IF k > Min(Len(words), Len(word_ts)) THEN acc
    ELSE LET word_range == <<Round2(word_ts[k][1] + offset),
                             Round2(word_ts[k][2] + offset)>>
         IN  IF word_range[2] > 0
             THEN add_timestamp_offset(words, word_ts, offset, k + 1,
                      [words |-> Append(acc.words, words[k]),
                       word_ts |-> Append(acc.word_ts, word_range)])
             ELSE add_timestamp_offset(words, word_ts, offset, k + 1, acc)

(* run_ASR_decoder_step: `raw` is what the acoustic model and the CTC       *)
(* decoder produced for the buffer (or that the call raised).              *)
run_ASR_decoder_step(raw, bstart) ==
    IF raw.fail
    THEN [error |-> "decode_failure", words |-> <<>>, word_ts |-> <<>>]
    ELSE IF Len(raw.words) # Len(raw.word_ts)
    THEN [error |-> "words_word_ts_mismatch", words |-> <<>>, word_ts |-> <<>>]
    ELSE LET adj == add_timestamp_offset(raw.words, raw.word_ts,
                        bstart - OnsetDelayMs, 1,
                        [words |-> <<>>, word_ts |-> <<>>])
         IN  [error |-> "none", words |-> adj.words, word_ts |-> adj.word_ts]

(* update_launcher_timestamps *)
update_launcher_timestamps(bstart, buf) ==
    LET total_buffer_len_ms == (Len(buf) * 1000) \div SampleRate
    IN  [buffer_end |-> Round2(bstart + total_buffer_len_ms),
         frame_start |-> Round2(bstart + (n_frame_overlap \div SampleRate) * 1000)]

(* Index (0-based, as in the code) of the first entry of ts whose start is *)
(* not before `bound`; len(ts) when all are before it.                     *)
FirstNotBefore(ts, bound) ==
    IF \A k \in 1..Len(ts) : ts[k][1] < bound THEN Len(ts)
    ELSE (CHOOSE k \in 1..Len(ts) :
              /\ ~(ts[k][1] < bound)
              /\ \A h \in 1..(k - 1) : ts[h][1] < bound) - 1

(* update_word_and_word_ts(words, word_timetamps) *)
update_word_and_word_tsAppendAll(wseq, wts, words, word_timetamps, fstart) ==
    [word_seq |-> wseq \o words, word_ts_seq |-> wts \o word_timetamps,
     old_end |-> Len(wseq), new_stt |-> 0]

update_word_and_word_ts(wseq, wts, words, word_timetamps, fstart) ==
    LET update_margin == -1 * ((FrameLenMs * WordUpdateMarginPct) \div 100)
    IN  IF Len(wseq) = 0
        THEN [word_seq |-> wseq \o words, word_ts_seq |-> wts \o word_timetamps,
              old_end |-> 0, new_stt |-> 0]
        ELSE IF Len(words) > 0
        THEN LET old_end == FirstNotBefore(wts, fstart + update_margin)
                 new_stt == FirstNotBefore(word_timetamps, fstart + update_margin)
             IN  [word_seq |-> SubSeq(wseq, 1, old_end) \o PySliceFrom(words, new_stt),
                  word_ts_seq |-> SubSeq(wts, 1, old_end)
                                     \o PySliceFrom(word_timetamps, new_stt),
                  old_end |-> old_end, new_stt |-> new_stt]
        ELSE [word_seq |-> wseq, word_ts_seq |-> wts,
              old_end |-> Len(wseq), new_stt |-> 0]

(* run_step(frame): the session fields after it and what it returns; when  *)
(* a call inside it raises, the fields assigned before the raise keep      *)
(* their new values.                                                       *)
run_step(frame, raw, diar_hyp) ==
    LET upd == update_audio_frame_input(frame, audio_buffer, frame_index)
        asr == run_ASR_decoder_step(raw, upd.buffer_start)
        ts == update_launcher_timestamps(upd.buffer_start, upd.buffer)
        same == [audio_buffer |-> audio_buffer, buffer_start |-> buffer_start,
                 buffer_end |-> buffer_end, frame_start |-> frame_start,
                 frame_index |-> frame_index, words |-> <<>>,
                 word_timestamps |-> <<>>, diar_hyp |-> <<>>]
    IN  IF upd.error # "none"
        THEN [error |-> upd.error] @@ same
        ELSE IF asr.error # "none"
        THEN [error |-> asr.error, audio_buffer |-> upd.buffer,
              buffer_start |-> Some(upd.buffer_start)] @@ same
        ELSE [error |-> "none", audio_buffer |-> upd.buffer,
              buffer_start |-> Some(upd.buffer_start),
              buffer_end |-> Some(ts.buffer_end), frame_start |-> ts.frame_start,
              frame_index |-> frame_index + 1, words |-> asr.words,
              word_timestamps |-> asr.word_ts, diar_hyp |-> diar_hyp]

(* Inputs of a streaming step *)
SampleValues == {1}
Frames == UNION {[1..k -> SampleValues] : k \in (CHUNK_SIZE - 1)..(CHUNK_SIZE + 1)}

WordIds == {1, 2}
RawStarts == {200, 1200, 2200}
RawDurs == {1504}
RawSpans == {<<b, b + d>> : b \in RawStarts, d \in RawDurs}
(* The decoder emits the words of a buffer in time order *)
TimeOrdered(ts) == \A k \in 1..(Len(ts) - 1) : ts[k][1] <= ts[k + 1][1]
RawTimestamps == {ts \in SeqsUpTo(RawSpans, MaxWords) : TimeOrdered(ts)}
(* What the model call and the CTC decoder produce: the call raises, or it *)
(* returns one timestamp per word, or the two lists differ in length.      *)
DecodeOutcomes ==
    {[fail |-> TRUE, words |-> <<>>, word_ts |-> <<>>]}
    \cup UNION {{[fail |-> FALSE, words |-> w, word_ts |-> ts] :
                     w \in [1..k -> WordIds],
                     ts \in {t \in RawTimestamps : Len(t) = k}} :
                 k \in 0..MaxWords}
    \cup {[fail |-> FALSE, words |-> <<w>>, word_ts |-> <<>>] : w \in WordIds}
    \cup {[fail |-> FALSE, words |-> <<>>, word_ts |-> <<sp>>] : sp \in RawSpans}

(* diarize_step returns a list of speaker segment labels, possibly empty *)
DiarOutputs == {<<>>, <<"0.0 1.0 speaker_0">>}

NoCall == [op |-> "init", frame |-> <<>>, error |-> "none",
           raw |-> [fail |-> FALSE, words |-> <<>>, word_ts |-> <<>>],
           words |-> <<>>, timestamps |-> <<>>, diar_hyp |-> <<>>,
           updated |-> FALSE, old_end |-> 0, new_stt |-> 0, old_len |-> 0]

(* audio_queue_launcher: the pause after which a call resets the session, *)
(* in seconds.  time.time() is the time since the epoch, far beyond it.    *)
StreamingResetPauseSec == 3
ClockStart == StreamingResetPauseSec + 1

(* What the launcher has done so far: `fed` samples were received, numbered *)
(* 1..fed in arrival order; `stepped` are the samples of the frames handed  *)
(* to streaming_step; `reset_mark` is `fed` at the last reset; `prev_end`   *)
(* is the time the previous launcher call returned, None when there was    *)
(* none or when a reset() or a call that raised came after it; `turn`      *)
(* flips at each launcher call;                                            *)
(* `call_reset`: the last call did reset; `pending` is what the last        *)
(* completed call left in audio_queue_buffer.                               *)
NoHist == [fed |-> 0, stepped |-> <<>>, reset_mark |-> 0, prev_end |-> None,
           turn |-> FALSE, call_reset |-> FALSE, pending |-> 0]

(* streaming_step and the wall clock: enforce_real_time of the             *)
(* configuration, and for the last streaming_step whether it completed,    *)
(* the time ETA that simulate_delay measured, the time it asked            *)
(* time.sleep for, and the time from the start of the step to its return.  *)
NoTimedStep == [enforce_real_time |-> FALSE, completed |-> FALSE,
                ETA |-> 0, slept |-> 0, returned_after |-> 0]

InitRealTime == rt = NoTimedStep

(* simulate_delay(loop_start_time): ETA is time.time() - loop_start_time;  *)
(* time.sleep returns after the time asked for plus `overshoot`.           *)
simulate_delaySleepAlways(enforce_real_time, ETA, overshoot) ==
    IF ETA < FrameLenMs
    THEN [ETA |-> ETA, slept |-> FrameLenMs - ETA,
          returned_after |-> ETA + (FrameLenMs - ETA) + overshoot]
    ELSE [ETA |-> ETA, slept |-> 0, returned_after |-> ETA]

simulate_delay(enforce_real_time, ETA, overshoot) ==
    IF enforce_real_time /\ ETA < FrameLenMs
    THEN [ETA |-> ETA, slept |-> FrameLenMs - ETA,
          returned_after |-> ETA + (FrameLenMs - ETA) + overshoot]
    ELSE [ETA |-> ETA, slept |-> 0, returned_after |-> ETA]

(* get_word_timestamp_anchor(word_ts_stt_end) for params['word_ts_anchor_pos'] *)
get_word_timestamp_anchor(word_ts_stt_end, word_ts_anchor_pos) ==
    (CASE word_ts_anchor_pos = "start" -> word_ts_stt_end[1]
       [] word_ts_anchor_pos = "end" -> word_ts_stt_end[2]
       [] word_ts_anchor_pos = "mid" ->
              (word_ts_stt_end[1] + word_ts_stt_end[2]) \div 2
       [] OTHER -> word_ts_stt_end[1])
    + word_ts_anchor_offset

(* The loop of get_word_dict_seq_list from word j on (j and idx as in the  *)
(* code).  A label is <<start, end, speaker>>: what split() and float()    *)
(* make of the string "start end speaker", in ms.                          *)
RECURSIVE word_dict_seq_loop(_, _, _, _, _, _, _)
word_dict_seq_loop(labels, words, word_ts_hyp, word_ts_refined, word_ts_anchor_pos, j, idx) ==
    IF j >= Len(word_ts_hyp) THEN <<>>
    ELSE LET word_pos == get_word_timestamp_anchor(word_ts_hyp[j + 1],
                                                   word_ts_anchor_pos)
             new_idx == IF word_pos > labels[idx + 1][2]
                        THEN Min(idx + 1, Len(labels) - 1)
                        ELSE idx
         IN  <<[word |-> words[j + 1],
                start_time |-> Round2(word_ts_refined[j + 1][1]),
                end_time |-> Round2(word_ts_refined[j + 1][2]),
                speaker_label |-> labels[new_idx + 1][3]]>>
             \o word_dict_seq_loop(labels, words, word_ts_hyp,
                    word_ts_refined, word_ts_anchor_pos, j + 1, new_idx)

(* get_word_dict_seq_list(diar_hyp, word_hyp, word_ts_hyp, word_ts_refined) *)
(* of a non-empty diar_hyp                                                  *)
get_word_dict_seq_list(diar_hyp, word_hyp, word_ts_hyp, word_ts_refined, word_ts_anchor_pos) ==
    word_dict_seq_loop(diar_hyp, word_hyp, word_ts_hyp, word_ts_refined,
                       word_ts_anchor_pos, 0, 0)

(* The timestamps of ASR_DIAR_ONLINE for a configured frame_len and        *)
(* frame_overlap                                                           *)

(* ASR_DIAR_ONLINE.__init__, which ends with reset(): the streaming buffer *)
(* parameters for frame_len and frame_overlap (ms) at SampleRate, and the  *)
(* fields of the timestamps.  buffer_start and buffer_end are None or      *)
(* <<ms>>.  `received` counts the frames written into the audio buffer and *)
(* `completed` the run_step calls that returned since the last reset(),    *)
(* `before` holds buffer_start and frame_start as the last of them left    *)
(* them, `error` is what the last call raised.                             *)
ASR_DIAR_ONLINE(frame_len, frame_overlap) ==
    [frame_len |-> frame_len,
     frame_overlap |-> frame_overlap,
     n_frame_len |-> (frame_len * SampleRate) \div 1000,
     n_frame_overlap |-> (frame_overlap * SampleRate) \div 1000,
     audio_buffer_length |-> 2 * ((frame_overlap * SampleRate) \div 1000)
                                 + (frame_len * SampleRate) \div 1000,
     overlap_frames_count |->
         ((frame_overlap * SampleRate) \div 1000) \div SampleRate,
     frame_index |-> 0,
     frame_start |-> 0,
     buffer_start |-> None,
     buffer_end |-> None,
     op |-> "init",
     error |-> "none",
     received |-> 0,
     completed |-> 0,
     before |-> None]

InitOnline == online = ASR_DIAR_ONLINE(FrameLenMs, FrameOverlapMs)

(* reset(): buffer_end is not among the fields it assigns *)
online_reset(o) ==
    [o EXCEPT !.frame_index = 0,
              !.frame_start = 0,
              !.buffer_start = None,
              !.op = "reset",
              !.error = "none",
              !.received = 0,
              !.completed = 0,
              !.before = None]

(* The assignment to buffer_start in update_audio_frame_input *)
online_buffer_start(o) ==
    Round2((o.frame_index + 1) * o.frame_len
               - (2 * o.overlap_frames_count * 1000 + o.frame_len))

(* update_launcher_timestamps() *)
online_update_launcher_timestamps(o) ==
    LET total_buffer_len_ms == (o.audio_buffer_length * 1000) \div SampleRate
    IN  [o EXCEPT
           !.buffer_end = Some(Round2(o.buffer_start[1] + total_buffer_len_ms)),
           !.frame_start = Round2(o.buffer_start[1]
                                    + (o.n_frame_overlap \div SampleRate) * 1000)]

(* run_step(frame): what it does to the timestamps.  When a decoder step   *)
(* raises, the frame has been written into the audio buffer and            *)
(* buffer_start has been assigned, and nothing else.                       *)
online_run_step(o, decoder_raises) ==
    LET started == [o EXCEPT !.buffer_start = Some(online_buffer_start(o)),
                             !.received = @ + 1,
                             !.op = "run_step"]
    IN  IF decoder_raises THEN [started EXCEPT !.error = "decoder"]
        ELSE [online_update_launcher_timestamps(started) EXCEPT
                 !.frame_index = @ + 1,
                 !.error = "none",
                 !.completed = @ + 1,
                 !.before = IF o.completed = 0 THEN None
                            ELSE Some([buffer_start |-> o.buffer_start[1],
                                       frame_start |-> o.frame_start])]

(* The bufferers, the decoder, the iterator and the timestamps as          *)
(* constructed                                                             *)
InitBufferers ==
    /\ fb = FeatureFrameBufferer(TRUE)
    /\ bfb = BatchedFeatureFrameBufferer
    /\ fbret = NoBuffererCall
    /\ InitRnnt
    /\ InitAfi
    /\ InitOnline

(* The session after __init__, which ends with reset() *)
InitSessionVars ==
    /\ audio_buffer = Zeros(audio_buffer_length)
    /\ frame_index = 0
    /\ frame_start = 0
    /\ buffer_start = None
    /\ buffer_end = None
    /\ word_seq = <<>>
    /\ word_ts_seq = <<>>
    /\ last = NoCall
    /\ audio_queue_buffer = <<>>
    /\ launcher_end_time = 0
    /\ now = ClockStart
    /\ pc = "idle"
    /\ hist = NoHist

----------------------------------------------------------------------------
(* Word timestamp functions of ASR_DIAR_OFFLINE and ASR_DIAR_ONLINE:       *)
(* merging word spans into speech segments and fixing word lengths.        *)
(* Times are in ms; a span is <<start, end>>.                              *)

(* Bound of the word timestamp lists *)
MaxSpans == 3        \* longest word timestamp list passed to the functions

(* Configuration, in ms *)
max_word_ts_length_in_sec == 600   \* self.max_word_ts_length_in_sec = 0.6
asr_based_vad_threshold == 50      \* self.asr_based_vad_threshold
nonspeech_threshold == 50          \* self.params['asr_based_vad_threshold']

(* copy.deepcopy of a list of spans: a new list with the same values *)
deepcopy(word_ts) == [k \in 1..Len(word_ts) |-> word_ts[k]]

(* The while loop of get_speech_labels_from_decoded_prediction: `count`    *)
(* is Python's index, the span at index count - 1 is word_ts[count] here.  *)
RECURSIVE speech_labels_loop(_, _)
speech_labels_loop(word_ts, count) ==
    IF ~(count > 0) THEN word_ts
    ELSE IF Len(word_ts) > 1
            /\ word_ts[count + 1][1] - word_ts[count][2] <= nonspeech_threshold
         THEN LET trangeB == word_ts[count + 1]
                  trangeA == word_ts[count]
              IN  speech_labels_loop(
                      SubSeq(word_ts, 1, count - 1)
                          \o << <<trangeA[1], trangeB[2]>> >>
                          \o SubSeq(word_ts, count + 2, Len(word_ts)),
                      count - 1)
         ELSE speech_labels_loop(word_ts, count - 1)

(* get_speech_labels_from_decoded_prediction(input_word_ts): what it       *)
(* returns and the caller's list after the call.                           *)
get_speech_labels_from_decoded_prediction(input_word_ts) ==
    LET word_ts == deepcopy(input_word_ts)
    IN  [input_word_ts |-> input_word_ts,
         ret |-> IF word_ts = <<>> THEN <<>>
                 ELSE speech_labels_loop(word_ts, Len(word_ts) - 1)]

(* get_the_closest_silence_start(vad_index_word_end, vad_frames, params):  *)
(* vad_frames is given by its length and the set of the indices whose      *)
(* value is below vad_threshold_for_word_ts.  The result is in ms.         *)
RECURSIVE closest_silence_loop(_, _, _)
closest_silence_loop(c, limit, vad_frames) ==
    IF ~(c < vad_frames.len) THEN c
    ELSE IF c \in vad_frames.silent THEN c
    ELSE IF c + 1 > limit THEN c + 1
    ELSE closest_silence_loop(c + 1, limit, vad_frames)

get_the_closest_silence_start(vad_index_word_end, vad_frames) ==
    LET offset == 10
        limit == (100 * max_word_ts_length_in_sec) \div 1000 + vad_index_word_end
        c == closest_silence_loop(vad_index_word_end + offset, limit, vad_frames)
    IN  Min(vad_frames.len - 1, c) * 10

(* compensate_word_ts_list for one uniq_id: frame_VAD is None when the     *)
(* uniq_id has no frame level VAD, Some(vad_frames) otherwise.             *)
compensate_word_ts_list(word_ts_seq_list, frame_VAD) ==
    LET N == Len(word_ts_seq_list)
    IN  [k \in 1..N |->
           LET word_ts == word_ts_seq_list[k]
           IN  IF k < N
               THEN LET word_len == Round2(word_ts[2] - word_ts[1])
                        len_to_next_word ==
                            Round2(word_ts_seq_list[k + 1][1] - word_ts[1] - 10)
                        vad_est_len ==
                            IF frame_VAD # None
                            THEN Round2(get_the_closest_silence_start(
                                            word_ts[2] \div 10, frame_VAD[1])
                                        - word_ts[1])
                            ELSE len_to_next_word
                        min_candidate == Min(vad_est_len, len_to_next_word)
                        fixed_word_len ==
                            Max(Min(max_word_ts_length_in_sec, min_candidate),
                                word_len)
                    IN  <<word_ts[1], word_ts[1] + fixed_word_len>>
               ELSE <<word_ts[1], word_ts[2]>>]

(* fix_word_ts(word_ts_seq_list) of the online session *)
fix_word_tsNoMax(word_ts_seq_list) ==
    LET N == Len(word_ts_seq_list)
    IN  [k \in 1..N |->
           LET word_ts == word_ts_seq_list[k]
           IN  IF k < N
               THEN LET len_to_next_word ==
                            Round2(word_ts_seq_list[k + 1][1] - word_ts[1] - 10)
                        vad_est_len == len_to_next_word
                        min_candidate == Min(vad_est_len, len_to_next_word)
                        fixed_word_len ==
                            Min(max_word_ts_length_in_sec, min_candidate)
                    IN  <<word_ts[1], Round2(word_ts[1] + fixed_word_len)>>
               ELSE <<word_ts[1], word_ts[2]>>]

fix_word_ts(word_ts_seq_list) ==
    LET N == Len(word_ts_seq_list)
    IN  [k \in 1..N |->
           LET word_ts == word_ts_seq_list[k]
           IN  IF k < N
               THEN LET word_len == Round2(word_ts[2] - word_ts[1])
                        len_to_next_word ==
                            Round2(word_ts_seq_list[k + 1][1] - word_ts[1] - 10)
                        vad_est_len == len_to_next_word
                        min_candidate == Min(vad_est_len, len_to_next_word)
                        fixed_word_len ==
                            Max(Min(max_word_ts_length_in_sec, min_candidate),
                                word_len)
                    IN  <<word_ts[1], Round2(word_ts[1] + fixed_word_len)>>
               ELSE <<word_ts[1], word_ts[2]>>]

(* The while loop of get_VAD_from_ASR *)
RECURSIVE VAD_from_ASR_loopStrict(_, _)
VAD_from_ASR_loopStrict(word_ts, count) ==
    IF ~(count > 0) THEN word_ts
    ELSE IF Len(word_ts) > 1
            /\ word_ts[count + 1][1] - word_ts[count][2] < asr_based_vad_threshold
         THEN LET trangeB == word_ts[count + 1]
                  trangeA == word_ts[count]
              IN  VAD_from_ASR_loopStrict(
                      SubSeq(word_ts, 1, count - 1)
                          \o << <<trangeA[1], trangeB[2]>> >>
                          \o SubSeq(word_ts, count + 2, Len(word_ts)),
                      count - 1)
         ELSE VAD_from_ASR_loopStrict(word_ts, count - 1)

RECURSIVE VAD_from_ASR_loop(_, _)
VAD_from_ASR_loop(word_ts, count) ==
    IF ~(count > 0) THEN word_ts
    ELSE IF Len(word_ts) > 1
            /\ word_ts[count + 1][1] - word_ts[count][2] <= asr_based_vad_threshold
         THEN LET trangeB == word_ts[count + 1]
                  trangeA == word_ts[count]
              IN  VAD_from_ASR_loop(
                      SubSeq(word_ts, 1, count - 1)
                          \o << <<trangeA[1], trangeB[2]>> >>
                          \o SubSeq(word_ts, count + 2, Len(word_ts)),
                      count - 1)
         ELSE VAD_from_ASR_loop(word_ts, count - 1)

(* get_VAD_from_ASR(word_ts): the caller's list after the call, the merged *)
(* list before fix_word_ts, and what is returned.  The parameter is        *)
(* rebound to the deep copy, which the loop then changes.                  *)
get_VAD_from_ASR(word_ts) ==
    LET copied == deepcopy(word_ts)
        merged == IF copied = <<>> THEN <<>>
                  ELSE VAD_from_ASR_loop(copied, Len(copied) - 1)
    IN  [word_ts |-> word_ts,
         merged |-> merged,
         ret |-> IF copied = <<>> THEN <<>> ELSE fix_word_ts(merged)]

(* Inputs: word spans on the 10 ms grid the decoders' timestamps are       *)
(* rounded to, in the order of their starts.                               *)
SpanStarts == {0, 300, 1000}
SpanLens == {250, 300, 800}
Spans == {<<b, b + d>> : b \in SpanStarts, d \in SpanLens}
WordTsLists == {ts \in SeqsUpTo(Spans, MaxSpans) : TimeOrdered(ts)}
(* Frame level VAD of the file: none, or 10 ms frames *)
FrameVADs ==
    {None,
     Some([len |-> 200, silent |-> {}]),
     Some([len |-> 200, silent |-> 45..60 \cup 120..130]),
     Some([len |-> 20, silent |-> {}])}

NoWordTsCall == [op |-> "none", input |-> <<>>, word_ts |-> <<>>,
                 merged |-> <<>>, ret |-> <<>>, frame_VAD |-> None]

InitWordTs == wt = NoWordTsCall

----------------------------------------------------------------------------
(* Calls of the merge functions on drawn inputs *)

NoRet == [out |-> <<>>, called |-> FALSE, X |-> <<>>, slice_idx |-> 0,
          lcs |-> NoLcs, buffer_in |-> <<>>]

InitMerge ==
    /\ buffer \in TokenSeqs \cup {ScenarioX}
    /\ data \in TokenSeqs \cup {ScenarioY}
    /\ delay = 0
    /\ max_steps_per_timestep = 1
    /\ op = "none"
    /\ ret = NoRet
    /\ InitSessionVars
    /\ InitRealTime
    /\ InitBufferers
    /\ InitWordTs

(* longest_common_subsequence_merge(X, Y) called with X = buffer, Y = data *)
CallLcsMerge ==
    /\ op = "none"
    /\ op' = "lcs"
    /\ ret' = [out |-> <<>>, called |-> TRUE, X |-> buffer,
               slice_idx |-> 0,
               lcs |-> longest_common_subsequence_merge(buffer, data),
               buffer_in |-> buffer]
    /\ UNCHANGED <<buffer, data, delay, max_steps_per_timestep>>
    /\ UNCHANGED <<sessionVars, last, launcherVars, buffererVars, wordTsVars,
                 realTimeVars>>

(* buffer = lcs_alignment_merge_buffer(buffer, data, delay, model,        *)
(*              max_steps_per_timestep); `buffer += data` is in place.     *)
CallLcsAlignmentMergeBuffer ==
    /\ op = "none"
    /\ \E dly \in 0..MaxDelay, steps \in 1..MaxSteps :
          \E r \in {lcs_alignment_merge_buffer(buffer, data, dly, steps)} :
              /\ delay' = dly
              /\ max_steps_per_timestep' = steps
              /\ ret' = r @@ [buffer_in |-> buffer]
              /\ buffer' = r.out
    /\ op' = "merge"
    /\ UNCHANGED data
    /\ UNCHANGED <<sessionVars, last, launcherVars, buffererVars, wordTsVars,
                 realTimeVars>>

(* buffer = inplace_buffer_merge(buffer, data, timesteps, model) *)
CallInplaceBufferMerge ==
    /\ op = "none"
    /\ \E timesteps \in 0..MaxDelay :
          \E r \in {inplace_buffer_merge(buffer, data, timesteps)} :
              /\ delay' = timesteps
              /\ ret' = r @@ [buffer_in |-> buffer]
              /\ buffer' = r.out
    /\ op' = "inplace"
    /\ UNCHANGED <<data, max_steps_per_timestep>>
    /\ UNCHANGED <<sessionVars, last, launcherVars, buffererVars, wordTsVars,
                 realTimeVars>>

NextMerge ==
    \/ CallLcsMerge
    \/ CallLcsAlignmentMergeBuffer
    \/ CallInplaceBufferMerge

SpecMerge == InitMerge /\ [][NextMerge]_vars

----------------------------------------------------------------------------
(* The streaming session *)

Init ==
    /\ InitSessionVars
    /\ InitRealTime
    /\ InitBufferers
    /\ InitWordTs
    /\ buffer = <<>>
    /\ data = <<>>
    /\ delay = 0
    /\ max_steps_per_timestep = 1
    /\ op = "none"
    /\ ret = NoRet

(* The part of streaming_step after the frame length check: run_step and, *)
(* when the diarizer returned segments, the stitch of word_seq and         *)
(* word_ts_seq with the decode output.                                     *)
run_and_stitchWithoutSegments(frame, raw, diar) ==
    \E rs \in {run_step(frame, raw, diar)} :
    \E st \in {update_word_and_word_ts(word_seq, word_ts_seq, rs.words,
                   rs.word_timestamps, rs.frame_start)} :
    LET call == [NoCall EXCEPT !.op = "streaming_step", !.frame = frame,
                               !.raw = raw, !.error = rs.error,
                               !.words = rs.words,
                               !.timestamps = rs.word_timestamps,
                               !.diar_hyp = rs.diar_hyp,
                               !.old_len = Len(word_seq)]
    IN  /\ audio_buffer' = rs.audio_buffer
        /\ buffer_start' = rs.buffer_start
        /\ buffer_end' = rs.buffer_end
        /\ frame_start' = rs.frame_start
        /\ frame_index' = rs.frame_index
        /\ IF rs.error # "none"
           THEN /\ last' = call
                /\ UNCHANGED <<word_seq, word_ts_seq>>
           ELSE IF Len(rs.words) # Len(rs.word_timestamps)
           THEN /\ last' = [call EXCEPT !.error = "mismatched_asr_results"]
                /\ UNCHANGED <<word_seq, word_ts_seq>>
           ELSE /\ last' = [call EXCEPT !.updated = TRUE,
                                        !.old_end = st.old_end,
                                        !.new_stt = st.new_stt]
                /\ word_seq' = st.word_seq
                /\ word_ts_seq' = st.word_ts_seq

run_and_stitch(frame, raw, diar) ==
    \E rs \in {run_step(frame, raw, diar)} :
    \E st \in {update_word_and_word_ts(word_seq, word_ts_seq, rs.words,
                   rs.word_timestamps, rs.frame_start)} :
    LET call == [NoCall EXCEPT !.op = "streaming_step", !.frame = frame,
                               !.raw = raw, !.error = rs.error,
                               !.words = rs.words,
                               !.timestamps = rs.word_timestamps,
                               !.diar_hyp = rs.diar_hyp,
                               !.old_len = Len(word_seq)]
    IN  /\ audio_buffer' = rs.audio_buffer
        /\ buffer_start' = rs.buffer_start
        /\ buffer_end' = rs.buffer_end
        /\ frame_start' = rs.frame_start
        /\ frame_index' = rs.frame_index
        /\ IF rs.error # "none" \/ rs.diar_hyp = <<>>
           THEN /\ last' = call
                /\ UNCHANGED <<word_seq, word_ts_seq>>
           ELSE IF Len(rs.words) # Len(rs.word_timestamps)
           THEN /\ last' = [call EXCEPT !.error = "mismatched_asr_results"]
                /\ UNCHANGED <<word_seq, word_ts_seq>>
           ELSE /\ last' = [call EXCEPT !.updated = TRUE,
                                        !.old_end = st.old_end,
                                        !.new_stt = st.new_stt]
                /\ word_seq' = st.word_seq
                /\ word_ts_seq' = st.word_ts_seq

(* streaming_step(frame): raw and diar are what the acoustic model /       *)
(* decoder and the diarizer return in this step; they are not consulted    *)
(* when the frame is rejected.                                             *)
streaming_stepNoLengthCheck(frame, raw, diar) ==
    run_and_stitch(frame, raw, diar)

streaming_step(frame, raw, diar) ==
    IF Len(frame) # (SampleRate * FrameLenMs) \div 1000
    THEN /\ last' = [NoCall EXCEPT !.op = "streaming_step", !.frame = frame,
                                   !.error = "frame_length"]
         /\ UNCHANGED sessionVars
    ELSE run_and_stitch(frame, raw, diar)

StreamingStep ==
    /\ frame_index < MaxFrames
    /\ \E frame \in Frames :
          IF Len(frame) # (SampleRate * FrameLenMs) \div 1000
          THEN streaming_step(frame, NoCall.raw, <<>>)
          ELSE \E raw \in DecodeOutcomes, diar \in DiarOutputs :
                   streaming_step(frame, raw, diar)
    /\ UNCHANGED <<mergeVars, realTimeVars, wordTsVars, launcherVars, buffererVars>>

(* reset(): the fields it assigns.  buffer_end and audio_queue_buffer are  *)
(* not among them.                                                         *)
resetKeepWords ==
    /\ frame_index' = 0
    /\ frame_start' = 0
    /\ buffer_start' = None
    /\ launcher_end_time' = 0
    /\ audio_buffer' = Zeros(Len(audio_buffer))
    /\ UNCHANGED <<word_seq, word_ts_seq>>
    /\ UNCHANGED buffer_end

reset ==
    /\ frame_index' = 0
    /\ frame_start' = 0
    /\ buffer_start' = None
    /\ launcher_end_time' = 0
    /\ audio_buffer' = Zeros(Len(audio_buffer))
    /\ word_seq' = <<>>
    /\ word_ts_seq' = <<>>
    /\ UNCHANGED buffer_end

(* A call of reset() between two calls on the session; `last` keeps what   *)
(* the session held when it was called.                                    *)
Reset ==
    /\ pc = "idle"
    /\ last' = [NoCall EXCEPT !.op = "reset", !.old_len = Len(word_seq),
                              !.frame = audio_buffer]
    /\ reset
    /\ hist' = [hist EXCEPT !.reset_mark = hist.fed, !.prev_end = None]
    /\ UNCHANGED <<audio_queue_buffer, now, pc>>
    /\ UNCHANGED <<mergeVars, realTimeVars, wordTsVars, buffererVars>>

Next ==
    \/ StreamingStep
    \/ Reset

Spec == Init /\ [][Next]_vars

----------------------------------------------------------------------------
(* audio_queue_launcher: the session fed from a queue of audio *)

(* Bounds of the launcher model *)
MaxSamples == 5      \* samples received over a run, numbered 1..MaxSamples
MaxElapsed == 5      \* the clock runs from ClockStart to ClockStart + MaxElapsed

(* time.time() - self.launcher_end_time > self.streaming_reset_pause_sec *)
needs_resetAtThreshold(t, end_time) == t - end_time >= StreamingResetPauseSec

needs_reset(t, end_time) == t - end_time > StreamingResetPauseSec

(* The samples process_audio_file returns for the k samples that arrive    *)
(* after `fed` samples: fed + 1 .. fed + k, in order.                      *)
NewSamples(fed, k) == [h \in 1..k |-> fed + h]

(* What the decoder returns for the frames of the launcher: it raises, or  *)
(* returns nothing, one word, or lists of different lengths.               *)
QueueDecodeOutcomes ==
    {o \in DecodeOutcomes :
        /\ Len(o.words) <= 1 /\ Len(o.word_ts) <= 1
        /\ \A k \in 1..Len(o.words) : o.words[k] = 1
        /\ \A k \in 1..Len(o.word_ts) : o.word_ts[k][1] = 2200}

(* Time passes, between calls and inside them *)
Tick ==
    /\ now < ClockStart + MaxElapsed
    /\ now' = now + 1
    /\ UNCHANGED <<mergeVars, realTimeVars, wordTsVars, sessionVars, last, buffererVars,
                   audio_queue_buffer, launcher_end_time, pc, hist>>

(* audio_queue_launcher(Audio, state) up to its loop: the reset after a    *)
(* pause, then process_audio_file, which raises when Audio is not a tuple, *)
(* then the append to audio_queue_buffer.                                  *)
AudioQueueLauncher ==
    /\ pc = "idle"
    /\ \E is_tuple \in BOOLEAN, k \in 0..(MaxSamples - hist.fed) :
          LET do_reset == needs_reset(now, launcher_end_time)
              fed == IF is_tuple THEN hist.fed + k ELSE hist.fed
          IN  /\ is_tuple \/ k = 0
              /\ IF do_reset THEN reset
                 ELSE UNCHANGED <<sessionVars, launcher_end_time>>
              /\ hist' = [hist EXCEPT !.turn = ~hist.turn,
                                      !.call_reset = do_reset,
                                      !.fed = fed,
                                      !.reset_mark =
                                          IF do_reset THEN hist.fed ELSE @,
                                      !.prev_end =
                                          IF is_tuple THEN @ ELSE None]
              /\ IF is_tuple
                 THEN /\ audio_queue_buffer' =
                             audio_queue_buffer \o NewSamples(hist.fed, k)
                      /\ pc' = "launcher"
                      /\ last' = [NoCall EXCEPT !.op = "audio_queue_launcher",
                                                !.old_len = Len(word_seq)]
                 ELSE /\ UNCHANGED <<audio_queue_buffer, pc>>
                      /\ last' = [NoCall EXCEPT !.op = "audio_queue_launcher",
                                                !.error = "input_type"]
    /\ UNCHANGED <<mergeVars, realTimeVars, wordTsVars, buffererVars, now>>

(* One turn of the loop: a frame is cut off audio_queue_buffer and given   *)
(* to streaming_step; an error of streaming_step ends the call.            *)
LauncherStep ==
    /\ pc = "launcher"
    /\ Len(audio_queue_buffer) > CHUNK_SIZE
    /\ \E frame \in {SubSeq(audio_queue_buffer, 1, CHUNK_SIZE)} :
          /\ audio_queue_buffer' = PySliceFrom(audio_queue_buffer, CHUNK_SIZE)
          /\ \E raw \in QueueDecodeOutcomes, diar \in DiarOutputs :
                 streaming_step(frame, raw, diar)
          /\ hist' = [hist EXCEPT !.stepped = @ \o frame,
                                  !.prev_end =
                                      IF last'.error = "none" THEN @ ELSE None]
    /\ pc' = IF last'.error = "none" THEN "launcher" ELSE "idle"
    /\ UNCHANGED <<mergeVars, realTimeVars, wordTsVars, buffererVars, launcher_end_time, now>>

(* The loop is over: launcher_end_time is set and the call returns *)
LauncherReturn ==
    /\ pc = "launcher"
    /\ ~(Len(audio_queue_buffer) > CHUNK_SIZE)
    /\ launcher_end_time' = now
    /\ pc' = "idle"
    /\ hist' = [hist EXCEPT !.prev_end = Some(now),
                            !.pending = Len(audio_queue_buffer)]
    /\ last' = [NoCall EXCEPT !.op = "launcher_return",
                              !.old_len = Len(word_seq)]
    /\ UNCHANGED <<mergeVars, realTimeVars, wordTsVars, buffererVars, audio_queue_buffer, now>>
    /\ UNCHANGED <<audio_buffer, frame_index, frame_start, buffer_start,
                   buffer_end, word_seq, word_ts_seq>>

NextLauncher ==
    \/ Tick
    \/ AudioQueueLauncher
    \/ LauncherStep
    \/ LauncherReturn
    \/ Reset

SpecLauncher == Init /\ [][NextLauncher]_vars

----------------------------------------------------------------------------
(* Calls of the word timestamp functions on drawn lists *)

(* The caller holds a word timestamp list (and, for the offline class, the *)
(* frame level VAD of the file or none); each call is made on that list.   *)
InitWordTsCalls ==
    /\ InitSessionVars
    /\ InitRealTime
    /\ InitBufferers
    /\ wt \in {[NoWordTsCall EXCEPT !.input = ts, !.word_ts = ts,
                                    !.frame_VAD = frame_VAD] :
                  ts \in WordTsLists, frame_VAD \in FrameVADs}
    /\ buffer = <<>>
    /\ data = <<>>
    /\ delay = 0
    /\ max_steps_per_timestep = 1
    /\ op = "none"
    /\ ret = NoRet

GetSpeechLabelsFromDecodedPrediction ==
    /\ \E r \in {get_speech_labels_from_decoded_prediction(wt.word_ts)} :
          wt' = [wt EXCEPT
                    !.op = "get_speech_labels_from_decoded_prediction",
                    !.input = wt.word_ts,
                    !.word_ts = r.input_word_ts,
                    !.merged = r.ret, !.ret = r.ret]
    /\ UNCHANGED <<mergeVars, realTimeVars, sessionVars, last, launcherVars, buffererVars>>

GetVADFromASR ==
    /\ \E r \in {get_VAD_from_ASR(wt.word_ts)} :
          wt' = [wt EXCEPT
                    !.op = "get_VAD_from_ASR", !.input = wt.word_ts,
                    !.word_ts = r.word_ts, !.merged = r.merged,
                    !.ret = r.ret]
    /\ UNCHANGED <<mergeVars, realTimeVars, sessionVars, last, launcherVars, buffererVars>>

FixWordTs ==
    /\ wt' = [wt EXCEPT
                 !.op = "fix_word_ts", !.input = wt.word_ts,
                 !.merged = <<>>,
                 !.ret = fix_word_ts(wt.word_ts)]
    /\ UNCHANGED <<mergeVars, realTimeVars, sessionVars, last, launcherVars, buffererVars>>

CompensateWordTsList ==
    /\ wt' = [wt EXCEPT
                 !.op = "compensate_word_ts_list", !.input = wt.word_ts,
                 !.merged = <<>>,
                 !.ret = compensate_word_ts_list(wt.word_ts, wt.frame_VAD)]
    /\ UNCHANGED <<mergeVars, realTimeVars, sessionVars, last, launcherVars, buffererVars>>

NextWordTs ==
    \/ GetSpeechLabelsFromDecodedPrediction
    \/ GetVADFromASR
    \/ FixWordTs
    \/ CompensateWordTsList

SpecWordTs == InitWordTsCalls /\ [][NextWordTs]_vars

----------------------------------------------------------------------------
(* run_step called directly *)

(* The frames run_step is given: None (the default) and frames of up to    *)
(* n_frame_len + 1 samples, whose values tell the call and the position.   *)
(* None and the frame of no samples are both written <<>>: either becomes  *)
(* n_frame_len zeros.                                                      *)
RunStepFrames(fidx) ==
    {None} \cup {[k \in 1..len |-> 10 * (fidx + 1) + k] :
                     len \in 1..(n_frame_len + 1)}

(* run_step(frame) called on the session, without the stitch that          *)
(* streaming_step does afterwards.                                         *)
RunStep ==
    /\ pc = "idle"
    /\ frame_index < MaxFrames
    /\ \E frame \in RunStepFrames(frame_index), raw \in QueueDecodeOutcomes,
          diar \in DiarOutputs :
          \E rs \in {run_step(frame, raw, diar)} :
             /\ audio_buffer' = rs.audio_buffer
             /\ buffer_start' = rs.buffer_start
             /\ buffer_end' = rs.buffer_end
             /\ frame_start' = rs.frame_start
             /\ frame_index' = rs.frame_index
             /\ last' = [NoCall EXCEPT !.op = "run_step", !.frame = frame,
                                       !.raw = raw, !.error = rs.error,
                                       !.words = rs.words,
                                       !.timestamps = rs.word_timestamps,
                                       !.diar_hyp = rs.diar_hyp,
                                       !.old_len = Len(word_seq)]
    /\ UNCHANGED <<word_seq, word_ts_seq>>
    /\ UNCHANGED <<mergeVars, realTimeVars, wordTsVars, launcherVars, buffererVars>>

NextRunStep ==
    \/ RunStep
    \/ Reset

SpecRunStep == Init /\ [][NextRunStep]_vars

----------------------------------------------------------------------------
(* Calls on a FeatureFrameBufferer and a BatchedFeatureFrameBufferer *)

InitBufferer ==
    /\ InitSessionVars
    /\ InitRealTime
    /\ buffer = <<>>
    /\ data = <<>>
    /\ delay = 0
    /\ max_steps_per_timestep = 1
    /\ op = "none"
    /\ ret = NoRet
    /\ fb \in {FeatureFrameBufferer(normalize_feature) :
                   normalize_feature \in BOOLEAN}
    /\ bfb = BatchedFeatureFrameBufferer
    /\ fbret = NoBuffererCall
    /\ InitRnnt
    /\ InitAfi
    /\ InitOnline
    /\ InitWordTs

(* The frames next_id .. next_id + n - 1 with their masks, as a reader *)
FrameReader(next_id, n) ==
    [k \in 1..n |-> [frame |-> FeatureFrame(next_id + k - 1),
                     frame_vad_mask |-> VadMaskFrame(next_id + k - 1)]]

Kept(returned) == IF fbret.kept = <<>> THEN returned ELSE fbret.kept

(* The two bufferers are separate objects: the calls on one are explored   *)
(* with the other one as constructed.                                      *)
BatchedUntouched == bfb = BatchedFeatureFrameBufferer
PlainUntouched ==
    fbret.readers_set = 0 /\ fbret.op \in {"init", "batched_get_frame_buffers"}

SetFrameReader ==
    /\ BatchedUntouched
    /\ fbret.readers_set < MaxReaders
    /\ \E n \in 0..MaxReaderFrames :
          /\ fb' = set_frame_reader(fb, FrameReader(fbret.next_id, n))
          /\ fbret' = [fbret EXCEPT
                 !.op = "set_frame_reader", !.error = "none",
                 !.batch_frames = <<>>, !.frame_buffers = <<>>,
                 !.normalized = FALSE, !.was_signal_end = fb.signal_end,
                 !.next_id = @ + n, !.readers_set = @ + 1,
                 !.reader_all = [k \in 1..n |-> FeatureFrame(fbret.next_id + k - 1)],
                 !.delivered = <<>>]
    /\ UNCHANGED <<mergeVars, realTimeVars, wordTsVars, sessionVars, last, launcherVars, bfb, rnnt, afi, online>>

GetBatchFrames ==
    /\ BatchedUntouched
    /\ \E g \in {get_batch_frames(fb)} :
          /\ fb' = g.o
          /\ fbret' = [fbret EXCEPT
                 !.op = "get_batch_frames", !.error = g.error,
                 !.batch_frames = g.batch_frames, !.frame_buffers = <<>>,
                 !.normalized = FALSE, !.was_signal_end = fb.signal_end,
                 !.delivered = @ \o g.batch_frames]
    /\ UNCHANGED <<mergeVars, realTimeVars, wordTsVars, sessionVars, last, launcherVars, bfb, rnnt, afi, online>>

(* get_frame_buffers on the batch that get_batch_frames just returned *)
GetFrameBuffers ==
    /\ BatchedUntouched
    /\ fbret.op = "get_batch_frames" /\ fbret.error = "none"
    /\ \E o \in {get_frame_buffers(fb, fbret.batch_frames)} :
          /\ fb' = o
          /\ fbret' = [fbret EXCEPT
                 !.op = "get_frame_buffers", !.error = "none",
                 !.frame_buffers = o.frame_buffers,
                 !.normalized = FALSE, !.was_signal_end = fb.signal_end,
                 !.pushed = @ \o fbret.batch_frames,
                 !.kept = Kept(o.frame_buffers)]
    /\ UNCHANGED <<mergeVars, realTimeVars, wordTsVars, sessionVars, last, launcherVars, bfb, rnnt, afi, online>>

GetBuffersBatch ==
    /\ BatchedUntouched
    /\ \E g \in {get_buffers_batch(fb)} :
          /\ fb' = g.o
          /\ fbret' = [fbret EXCEPT
                 !.op = "get_buffers_batch", !.error = g.error,
                 !.batch_frames = g.batch_frames,
                 !.frame_buffers = g.frame_buffers,
                 !.normalized = g.normalized,
                 !.was_signal_end = fb.signal_end,
                 !.delivered = @ \o g.batch_frames,
                 !.pushed = @ \o g.batch_frames,
                 !.kept = IF g.normalized THEN @ ELSE Kept(g.frame_buffers)]
    /\ UNCHANGED <<mergeVars, realTimeVars, wordTsVars, sessionVars, last, launcherVars, bfb, rnnt, afi, online>>

BuffererReset ==
    /\ BatchedUntouched
    /\ fb' = fb_reset(fb)
    /\ fbret' = [fbret EXCEPT
           !.op = "reset", !.error = "none", !.batch_frames = <<>>,
           !.frame_buffers = <<>>, !.normalized = FALSE,
           !.was_signal_end = fb.signal_end, !.pushed = <<>>]
    /\ UNCHANGED <<mergeVars, realTimeVars, wordTsVars, sessionVars, last, launcherVars, bfb, rnnt, afi, online>>

(* BatchedFeatureFrameBufferer.get_frame_buffers on a list that holds, for *)
(* every sample of the batch, a frame or None.                             *)
BatchedGetFrameBuffers ==
    /\ PlainUntouched
    /\ \E frames \in [1..batch_size ->
                         {<<>>} \cup {FeatureFrame(id) : id \in 1..MaxReaders}] :
          bfb' = batched_get_frame_buffers(bfb, frames)
    /\ fbret' = [fbret EXCEPT !.op = "batched_get_frame_buffers",
                              !.error = "none", !.batch_frames = <<>>,
                              !.frame_buffers = <<>>, !.normalized = FALSE]
    /\ UNCHANGED <<mergeVars, realTimeVars, wordTsVars, sessionVars, last, launcherVars, fb, rnnt, afi, online>>

NextBufferer ==
    \/ SetFrameReader
    \/ GetBatchFrames
    \/ GetFrameBuffers
    \/ GetBuffersBatch
    \/ BuffererReset
    \/ BatchedGetFrameBuffers

SpecBufferer == InitBufferer /\ [][NextBufferer]_vars

----------------------------------------------------------------------------
(* Calls on a BatchedFeatureFrameBufferer that feed it readers *)

MaxReaderSets == 3   \* set_frame_reader calls made between two resets

(* What the calls have done since the last reset, per sample: `set_at` is  *)
(* buffer_number when the sample's reader was set, `delivered` the number  *)
(* of frames that reader has yielded; `sets` counts the set_frame_reader   *)
(* calls; `raised`: a get_batch_frames call met a sample without reader.   *)
NoBatchedCall ==
    [op |-> "init", error |-> "none", batch_frames |-> <<>>,
     set_at |-> [idx \in 1..batch_size |-> 0],
     delivered |-> [idx \in 1..batch_size |-> 0],
     sets |-> 0, raised |-> FALSE]

InitBatched ==
    /\ InitSessionVars
    /\ InitRealTime
    /\ InitWordTs
    /\ buffer = <<>>
    /\ data = <<>>
    /\ delay = 0
    /\ max_steps_per_timestep = 1
    /\ op = "none"
    /\ ret = NoRet
    /\ fb = FeatureFrameBufferer(TRUE)
    /\ bfb = BatchedFeatureFrameBufferer
    /\ fbret = NoBatchedCall
    /\ InitRnnt
    /\ InitAfi
    /\ InitOnline

BatchedSetFrameReader ==
    /\ fbret.sets < MaxReaderSets
    /\ \E idx \in 1..batch_size, n \in 0..MaxReaderFrames :
          /\ bfb' = batched_set_frame_reader(bfb, FrameReader(1, n), idx)
          /\ fbret' = [fbret EXCEPT !.op = "set_frame_reader",
                                    !.error = "none", !.batch_frames = <<>>,
                                    !.set_at[idx] = bfb.buffer_number,
                                    !.delivered[idx] = 0,
                                    !.sets = @ + 1]
    /\ UNCHANGED <<mergeVars, realTimeVars, wordTsVars, sessionVars, last, launcherVars, fb, rnnt, afi, online>>

BatchedGetBatchFrames ==
    /\ \E g \in {batched_get_batch_frames(bfb)} :
          /\ bfb' = g.o
          /\ fbret' = [fbret EXCEPT
                 !.op = "get_batch_frames", !.error = g.error,
                 !.batch_frames = g.batch_frames,
                 !.raised = @ \/ g.error # "none",
                 !.delivered = [idx \in 1..batch_size |->
                     IF /\ bfb.all_frame_reader[idx] # <<>>
                        /\ g.o.all_frame_reader[idx] # bfb.all_frame_reader[idx]
                     THEN @[idx] + 1 ELSE @[idx]]]
    /\ UNCHANGED <<mergeVars, realTimeVars, wordTsVars, sessionVars, last, launcherVars, fb, rnnt, afi, online>>

BatchedReset ==
    /\ bfb' = batched_reset(bfb)
    /\ fbret' = [NoBatchedCall EXCEPT !.op = "reset"]
    /\ UNCHANGED <<mergeVars, realTimeVars, wordTsVars, sessionVars, last, launcherVars, fb, rnnt, afi, online>>

NextBatched ==
    \/ BatchedSetFrameReader
    \/ BatchedGetBatchFrames
    \/ BatchedReset

SpecBatched == InitBatched /\ [][NextBatched]_vars

----------------------------------------------------------------------------
(* Calls on a BatchedFrameASRRNNT *)

(* The last call (op, error) and, for the last _get_batch_preds call that  *)
(* reached the decoder, its sub-batch new_batch_keys, what it returned     *)
(* (best_hyp) and batch_index_map and previous_hypotheses as it found      *)
(* them; the sub-batch of the decoder call before it (prev_batch_keys);    *)
(* the samples whose reader was set since the last decoder call; whether a *)
(* reader was set after a decoder call, or after a get_batch_frames call   *)
(* that returned a batch, since the last reset(); whether infer_logits is  *)
(* inside its loop.                                                        *)
NoRnntCall ==
    [op |-> "init", error |-> "none", in_infer_logits |-> FALSE,
     decoded |-> FALSE, new_batch_keys |-> <<>>, prev_batch_keys |-> <<>>,
     map_before |-> [idx \in 1..batch_size |-> idx],
     previous_before |-> <<>>, best_hyp |-> <<>>,
     readers_set_since |-> {}, decoded_since_reset |-> FALSE,
     reader_set_after_decode |-> FALSE, reader_set_after_batch |-> FALSE,
     sets |-> 0]

InitRnntCalls ==
    /\ InitSessionVars
    /\ InitRealTime
    /\ InitWordTs
    /\ buffer = <<>>
    /\ data = <<>>
    /\ delay = 0
    /\ max_steps_per_timestep = 1
    /\ op = "none"
    /\ ret = NoRet
    /\ fb = FeatureFrameBufferer(TRUE)
    /\ bfb = BatchedFeatureFrameBufferer
    /\ fbret = NoRnntCall
    /\ rnnt \in {BatchedFrameASRRNNT(stateful_decoding) :
                     stateful_decoding \in BOOLEAN}
    /\ InitAfi
    /\ InitOnline

RnntReaderSet(samples) ==
    [fbret EXCEPT !.error = "none", !.decoded = FALSE,
                  !.readers_set_since = @ \cup samples,
                  !.reader_set_after_decode = @ \/ fbret.decoded_since_reset,
                  !.reader_set_after_batch = @ \/ bfb.buffer_number > 0,
                  !.sets = @ + 1]

(* BatchedFrameASRRNNT.reset() *)
RnntReset ==
    /\ ~fbret.in_infer_logits
    /\ rnnt' = rnnt_reset(rnnt)
    /\ bfb' = batched_reset(bfb)
    /\ fbret' = [NoRnntCall EXCEPT !.op = "reset"]
    /\ UNCHANGED <<mergeVars, realTimeVars, wordTsVars, sessionVars, last,
                   launcherVars, fb, afi, online>>

(* read_audio_file(audio_filepath, delay, model_stride_in_secs): a frame   *)
(* reader is set for every sample of the batch.                            *)
RnntReadAudioFile ==
    /\ ~fbret.in_infer_logits
    /\ fbret.sets < MaxReaders
    /\ \E n \in [1..batch_size -> 0..MaxReaderFrames] :
          bfb' = [bfb EXCEPT
                    !.all_frame_reader =
                        [idx \in 1..batch_size |-> <<FrameReader(1, n[idx])>>],
                    !.signal_end = [idx \in 1..batch_size |-> FALSE],
                    !.signal_end_index = [idx \in 1..batch_size |-> <<>>]]
    /\ fbret' = [RnntReaderSet(1..batch_size) EXCEPT !.op = "read_audio_file"]
    /\ UNCHANGED <<mergeVars, realTimeVars, wordTsVars, sessionVars, last,
                   launcherVars, fb, rnnt, afi, online>>

(* BatchedFrameASRRNNT.set_frame_reader(frame_reader, idx) *)
RnntSetFrameReader ==
    /\ ~fbret.in_infer_logits
    /\ fbret.sets < MaxReaders
    /\ \E idx \in 1..batch_size, n \in 0..MaxReaderFrames :
          /\ bfb' = batched_set_frame_reader(bfb, FrameReader(1, n), idx)
          /\ fbret' = [RnntReaderSet({idx}) EXCEPT !.op = "set_frame_reader"]
    /\ UNCHANGED <<mergeVars, realTimeVars, wordTsVars, sessionVars, last,
                   launcherVars, fb, rnnt, afi, online>>

(* infer_logits(): the call of get_buffers_batch that opens it or that     *)
(* ends an iteration of its loop, and the _get_batch_preds call of the     *)
(* iteration that follows when buffers were returned.  The loop is left    *)
(* when no buffers are returned or a call raises.                          *)
RnntInferLogits ==
    /\ \E g \in {batched_get_buffers_batch(bfb)} :
          /\ bfb' = g.o
          /\ IF g.error # "none" \/ Len(g.frame_buffers) = 0
             THEN /\ rnnt' = rnnt
                  /\ fbret' = [fbret EXCEPT !.op = "infer_logits",
                                            !.error = g.error,
                                            !.decoded = FALSE,
                                            !.in_infer_logits = FALSE]
             ELSE \E p \in {get_batch_preds(rnnt, g.o.signal_end)} :
                     /\ rnnt' = p.o
                     /\ fbret' =
                          IF p.decoded \/ p.error # "none"
                          THEN [fbret EXCEPT
                                  !.op = "_get_batch_preds",
                                  !.error = p.error,
                                  !.in_infer_logits = p.error = "none",
                                  !.decoded = p.decoded,
                                  !.new_batch_keys = p.new_batch_keys,
                                  !.prev_batch_keys = fbret.new_batch_keys,
                                  !.map_before = rnnt.batch_index_map,
                                  !.previous_before = rnnt.previous_hypotheses,
                                  !.best_hyp = p.best_hyp,
                                  !.readers_set_since = {},
                                  !.decoded_since_reset = @ \/ p.decoded]
                          ELSE [fbret EXCEPT !.op = "infer_logits",
                                             !.error = "none",
                                             !.decoded = FALSE,
                                             !.in_infer_logits = TRUE]
    /\ UNCHANGED <<mergeVars, realTimeVars, wordTsVars, sessionVars, last,
                   launcherVars, fb, afi, online>>

NextRnnt ==
    \/ RnntReset
    \/ RnntReadAudioFile
    \/ RnntSetFrameReader
    \/ RnntInferLogits

SpecRnnt == InitRnntCalls /\ [][NextRnnt]_vars

----------------------------------------------------------------------------
(* Iteration over an AudioFeatureIterator *)

InitAfiCalls ==
    /\ InitSessionVars
    /\ InitRealTime
    /\ InitWordTs
    /\ buffer = <<>>
    /\ data = <<>>
    /\ delay = 0
    /\ max_steps_per_timestep = 1
    /\ op = "none"
    /\ ret = NoRet
    /\ fb = FeatureFrameBufferer(TRUE)
    /\ bfb = BatchedFeatureFrameBufferer
    /\ fbret = NoBuffererCall
    /\ InitRnnt
    /\ afi \in {AudioFeatureIterator(features_len, feature_frame_len,
                                     speech_segments) :
                   features_len \in 0..MaxFeaturesLen,
                   feature_frame_len \in 1..MaxFeatureFrameLen,
                   speech_segments \in BOOLEAN}
    /\ InitOnline

(* next(frame_reader) *)
AfiNext ==
    /\ afi' = afi_next(afi)
    /\ UNCHANGED <<mergeVars, realTimeVars, wordTsVars, sessionVars, last,
                   launcherVars, fb, bfb, fbret, rnnt, online>>

NextAfi == AfiNext

SpecAfi == InitAfiCalls /\ [][NextAfi]_vars

----------------------------------------------------------------------------
(* run_step and reset on sessions of every configuration *)

FrameLens == {500, 1000}
FrameOverlaps == {k * 500 : k \in 0..MaxHalfSecondsOverlap}

InitOnlineCalls ==
    /\ InitSessionVars
    /\ InitRealTime
    /\ InitWordTs
    /\ buffer = <<>>
    /\ data = <<>>
    /\ delay = 0
    /\ max_steps_per_timestep = 1
    /\ op = "none"
    /\ ret = NoRet
    /\ fb = FeatureFrameBufferer(TRUE)
    /\ bfb = BatchedFeatureFrameBufferer
    /\ fbret = NoBuffererCall
    /\ InitRnnt
    /\ InitAfi
    /\ online \in {ASR_DIAR_ONLINE(frame_len, frame_overlap) :
                      frame_len \in FrameLens, frame_overlap \in FrameOverlaps}

(* run_step(frame) with a frame of the right length *)
OnlineRunStep ==
    /\ online.received < MaxOnlineSteps
    /\ \E decoder_raises \in BOOLEAN :
          online' = online_run_step(online, decoder_raises)
    /\ UNCHANGED <<mergeVars, realTimeVars, wordTsVars, sessionVars, last,
                   launcherVars, fb, bfb, fbret, rnnt, afi>>

(* reset() *)
OnlineReset ==
    /\ online.op # "reset"
    /\ online' = online_reset(online)
    /\ UNCHANGED <<mergeVars, realTimeVars, wordTsVars, sessionVars, last,
                   launcherVars, fb, bfb, fbret, rnnt, afi>>

NextOnline ==
    \/ OnlineRunStep
    \/ OnlineReset

SpecOnline == InitOnlineCalls /\ [][NextOnline]_vars

----------------------------------------------------------------------------
(* get_word_dict_seq_list on drawn words and diarization segments *)

(* Diarization labels: consecutive segments of one second from 0, each of  *)
(* one of two speakers                                                     *)
DiarLabels ==
    UNION {{[k \in 1..n |-> <<(k - 1) * 1000, k * 1000, spk[k]>>] :
               spk \in [1..n -> {"speaker_0", "speaker_1"}]} :
           n \in 1..MaxSegments}

(* Words of 200 ms that start on a grid of half seconds, in time order *)
DictWordTs ==
    {ts \in SeqsUpTo({<<500 * g, 500 * g + 200>> : g \in 0..(2 * MaxSegments)},
                     MaxDictWords) : TimeOrdered(ts)}

NoWordDictCall == [op |-> "none", diar_hyp |-> <<>>, word_hyp |-> <<>>,
                   word_ts_hyp |-> <<>>, word_ts_anchor_pos |-> "start",
                   ret |-> <<>>]

InitWordDictCalls ==
    /\ InitSessionVars
    /\ InitRealTime
    /\ InitBufferers
    /\ wt \in {[NoWordDictCall EXCEPT
                  !.diar_hyp = labels,
                  !.word_hyp = [j \in 1..Len(ts) |-> j],
                  !.word_ts_hyp = ts,
                  !.word_ts_anchor_pos = pos] :
                  labels \in DiarLabels, ts \in DictWordTs,
                  pos \in {"start", "mid", "end"}}
    /\ buffer = <<>>
    /\ data = <<>>
    /\ delay = 0
    /\ max_steps_per_timestep = 1
    /\ op = "none"
    /\ ret = NoRet

(* get_word_dict_seq_list(diar_hyp, word_seq, word_ts_seq, word_ts_seq) *)
GetWordDictSeqList ==
    /\ wt' = [wt EXCEPT
                 !.op = "get_word_dict_seq_list",
                 !.ret = get_word_dict_seq_list(wt.diar_hyp, wt.word_hyp,
                             wt.word_ts_hyp, wt.word_ts_hyp,
                             wt.word_ts_anchor_pos)]
    /\ UNCHANGED <<mergeVars, realTimeVars, sessionVars, last, launcherVars,
                   buffererVars>>

NextWordDict == GetWordDictSeqList

SpecWordDict == InitWordDictCalls /\ [][NextWordDict]_vars

----------------------------------------------------------------------------
(* greedy_merge on drawn predictions *)

(* Frame-level predictions: token ids and the blank id *)
PredSeqs == SeqsUpTo(Tokens \cup {blank_id}, MaxPreds)

InitGreedy ==
    /\ buffer = <<>>
    /\ data \in PredSeqs
    /\ delay = 0
    /\ max_steps_per_timestep = 1
    /\ op = "none"
    /\ ret = NoRet
    /\ InitSessionVars
    /\ InitRealTime
    /\ InitBufferers
    /\ InitWordTs

(* greedy_merge(self.unmerged) with preds = data *)
CallGreedyMerge ==
    /\ op = "none"
    /\ op' = "greedy_merge"
    /\ ret' = [NoRet EXCEPT !.out = greedy_merge(data), !.called = TRUE]
    /\ UNCHANGED <<buffer, data, delay, max_steps_per_timestep>>
    /\ UNCHANGED <<sessionVars, last, launcherVars, buffererVars, wordTsVars,
                 realTimeVars>>

NextGreedy == CallGreedyMerge

SpecGreedy == InitGreedy /\ [][NextGreedy]_vars

----------------------------------------------------------------------------
(* streaming_step with the wall clock *)

(* How long the work of a step takes and by how much time.sleep overshoots *)
(* (ms)                                                                    *)
StepDurations == {0, 400, 1000, 1600}
SleepOvershoots == {0, 10}

InitTimed ==
    /\ InitSessionVars
    /\ InitBufferers
    /\ InitWordTs
    /\ rt \in {[NoTimedStep EXCEPT !.enforce_real_time = b] : b \in BOOLEAN}
    /\ buffer = <<>>
    /\ data = <<>>
    /\ delay = 0
    /\ max_steps_per_timestep = 1
    /\ op = "none"
    /\ ret = NoRet

(* streaming_step(frame): loop_start_time is taken first; the step takes   *)
(* `d` ms up to simulate_delay, which is reached only when nothing raised. *)
TimedStreamingStep ==
    /\ frame_index < MaxFrames
    /\ \E frame \in Frames, d \in StepDurations, overshoot \in SleepOvershoots :
          /\ IF Len(frame) # (SampleRate * FrameLenMs) \div 1000
             THEN streaming_step(frame, NoCall.raw, <<>>)
             ELSE \E raw \in QueueDecodeOutcomes, diar \in DiarOutputs :
                      streaming_step(frame, raw, diar)
          /\ rt' = IF last'.error = "none"
                   THEN [enforce_real_time |-> rt.enforce_real_time,
                         completed |-> TRUE]
                        @@ simulate_delay(rt.enforce_real_time, d, overshoot)
                   ELSE [NoTimedStep EXCEPT
                            !.enforce_real_time = rt.enforce_real_time,
                            !.returned_after = d]
    /\ UNCHANGED <<mergeVars, wordTsVars, launcherVars, buffererVars>>

NextTimed ==
    \/ TimedStreamingStep
    \/ Reset

SpecTimed == InitTimed /\ [][NextTimed]_vars

----------------------------------------------------------------------------
(* Properties of the LCS merge, checked under SpecMerge *)

(* The last call ran longest_common_subsequence_merge on X = ret.X, Y = data *)
LcsCalled == op \in {"lcs", "merge"} /\ ret.called

SetMax(S) == CHOOSE x \in S : \A y \in S : y <= x

(* Length of the longest common contiguous run of X and Y *)
MaxRun(X, Y) ==
    SetMax({LCSuffCell(X, Y, i, j) : i \in 0..Len(X), j \in 0..Len(Y)})

(* Columns of Y at which a longest run that ends at the last element of X ends *)
LastRowRunCols(X, Y) ==
    UNION {{c \in 1..Len(Y) : LCSuffCell(X, Y, Len(X), c) = longest} :
           longest \in {MaxRun(X, Y)}}

(* C1: when a longest common contiguous run of X and Y ends at the last    *)
(* element of X, the merge is complete, slice_len is the run length and    *)
(* col + slice_len is the column j* at which that run ends in Y (the last  *)
(* such column when several longest runs end at the last element of X), so *)
(* lcs_alignment_merge_buffer appends exactly Y[j*:]; for X = [5,6,7,2,3], *)
(* Y = [2,3,8,9] slice_len is 2 and [8,9] is what gets appended.           *)
C1_CompleteMergeIsExact ==
    /\ (LcsCalled /\ Len(ret.X) > 0 /\ MaxRun(ret.X, data) > 0
            /\ LastRowRunCols(ret.X, data) # {})
        => LET jstar == SetMax(LastRowRunCols(ret.X, data))
           IN  /\ ret.lcs.is_complete_merge
               /\ ret.lcs.slice_len = MaxRun(ret.X, data)
               /\ ret.lcs.j + ret.lcs.slice_len = jstar
               /\ ret.lcs.i = Len(ret.X) - MaxRun(ret.X, data)
               /\ op = "merge" => buffer = ret.buffer_in \o PySliceFrom(data, jstar)
    /\ (LcsCalled /\ ret.X = ScenarioX /\ data = ScenarioY)
        => /\ ret.lcs.slice_len = 2
           /\ ret.lcs.j = 0
           /\ PySliceFrom(data, ret.lcs.j + ret.lcs.slice_len) = <<8, 9>>
    /\ (op = "merge" /\ ret.called /\ ret.buffer_in = ScenarioX /\ data = ScenarioY)
        => buffer = ScenarioX \o <<8, 9>>

C1_Witness ==
    /\ op = "lcs" /\ ret.X = ScenarioX /\ data = ScenarioY
    /\ ret.lcs.is_complete_merge /\ ret.lcs.slice_len = 2

(* C2 as stated: for non-empty X and Y = X the result has row = len(X) and *)
(* slice_len = len(Y).                                                     *)
C2_FullDuplicateRowIsLenX ==
    (LcsCalled /\ Len(ret.X) > 0 /\ data = ret.X)
        => (ret.lcs.i = Len(ret.X) /\ ret.lcs.slice_len = Len(data))

(* C2 amended: for non-empty X and Y = X the merge is complete (the        *)
(* tracked run ends at row len(X)), the returned row and col are 0 (the    *)
(* start of the alignment) and slice_len = len(Y): all of Y is discarded.  *)
C2_FullDuplicateDiscardsAll ==
    (LcsCalled /\ Len(ret.X) > 0 /\ data = ret.X)
        => /\ ret.lcs.is_complete_merge
           /\ ret.lcs.i_star = Len(ret.X)
           /\ ret.lcs.i = 0
           /\ ret.lcs.j = 0
           /\ ret.lcs.slice_len = Len(data)
           /\ op = "merge" => buffer = ret.buffer_in

C2_Witness ==
    /\ op = "lcs" /\ Len(ret.X) = 3 /\ data = ret.X
    /\ ret.lcs.slice_len = 3 /\ ret.lcs.i = 0

Range(s) == {s[k] : k \in 1..Len(s)}

(* C3: for non-empty X and a Y sharing no token id with X the result has   *)
(* slice_len = 0 and col = 0, and lcs_alignment_merge_buffer appends all   *)
(* of Y.                                                                   *)
C3_DisjointAppendsAll ==
    (LcsCalled /\ Len(ret.X) > 0 /\ Range(ret.X) \cap Range(data) = {})
        => /\ ret.lcs.slice_len = 0
           /\ ret.lcs.j = 0
           /\ op = "merge" => buffer = ret.buffer_in \o data

C3_Witness ==
    /\ op = "merge" /\ ret.called /\ Len(ret.X) >= 2 /\ Len(data) >= 2
    /\ Range(ret.X) \cap Range(data) = {}
    /\ buffer = ret.buffer_in \o data

(* X and Y are non-empty and consist of one and the same repeated token id *)
AllSameToken(X, Y) ==
    /\ Len(X) > 0 /\ Len(Y) > 0
    /\ \E t \in Range(X) : Range(X) = {t} /\ Range(Y) = {t}

(* C4 as stated: when X and Y consist of one repeated token id, no merge   *)
(* is performed: col = 0, slice_len = 0 and all of Y is appended.          *)
C4_SilentBuffersNoMerge ==
    (LcsCalled /\ AllSameToken(ret.X, data))
        => /\ ret.lcs.j = 0
           /\ ret.lcs.slice_len = 0
           /\ op = "merge" => buffer = ret.buffer_in \o data

(* C4 amended: when X and Y consist of one repeated token id, the merge is *)
(* complete: slice_len = min(len(X), len(Y)) and col + slice_len = len(Y), *)
(* so nothing of Y is appended; the minimum-merge guard is not reached.    *)
C4_SilentBuffersCompleteMerge ==
    (LcsCalled /\ AllSameToken(ret.X, data))
        => /\ ret.lcs.is_complete_merge
           /\ ret.lcs.slice_len = Min(Len(ret.X), Len(data))
           /\ ret.lcs.j + ret.lcs.slice_len = Len(data)
           /\ op = "merge" => buffer = ret.buffer_in

C4_Witness ==
    /\ op = "merge" /\ ret.called /\ AllSameToken(ret.X, data)
    /\ Len(ret.X) = 2 /\ Len(data) = 3
    /\ ret.lcs.j = 1 /\ ret.lcs.slice_len = 2 /\ buffer = ret.buffer_in

(* C5: lcs_alignment_merge_buffer with delay < 1 or an empty buffer does   *)
(* not run the LCS merge and returns the old buffer followed by all of     *)
(* data.                                                                   *)
C5_BypassConcatenates ==
    (op = "merge" /\ (delay < 1 \/ Len(ret.buffer_in) = 0))
        => (~ret.called /\ buffer = ret.buffer_in \o data)

C5_Witness ==
    /\ op = "merge" /\ delay < 1 /\ Len(ret.buffer_in) >= 2 /\ Len(data) >= 2
    /\ ret.buffer_in[Len(ret.buffer_in)] = data[1]
    /\ buffer = ret.buffer_in \o data

----------------------------------------------------------------------------
(* Properties of the streaming session, checked under Spec *)

(* C7: a streaming_step whose frame does not have int(sample_rate *        *)
(* frame_len) samples raises an error and leaves audio_buffer,             *)
(* frame_index, buffer_start, frame_start, buffer_end, word_seq and        *)
(* word_ts_seq as they were.                                               *)
C7_WrongFrameLengthLeavesState ==
    [][(last'.op = "streaming_step" /\ Len(last'.frame) # CHUNK_SIZE)
           => (last'.error = "frame_length" /\ UNCHANGED sessionVars)]_vars

C7_Witness ==
    /\ last.op = "streaming_step" /\ last.error = "frame_length"
    /\ Len(last.frame) = CHUNK_SIZE - 1
    /\ frame_index > 0 /\ Len(word_seq) > 0
    /\ audio_buffer # Zeros(audio_buffer_length)

(* C8 as stated: when the decode step of a streaming step fails (the model *)
(* call raises, or words and timestamps differ in length), audio_buffer,   *)
(* buffer_start, frame_index, word_seq and word_ts_seq are as before the   *)
(* step.                                                                   *)
C8_DecodeFailureIsAtomic ==
    [][(last'.op = "streaming_step"
            /\ last'.error \in {"decode_failure", "words_word_ts_mismatch"})
           => UNCHANGED <<audio_buffer, buffer_start, frame_index,
                          word_seq, word_ts_seq>>]_vars

(* The entries of seq whose timestamp starts before / not before bound *)
RECURSIVE StartsBefore(_, _, _)
StartsBefore(seq, ts, bound) ==
    IF Len(seq) = 0 THEN <<>>
    ELSE IF ts[1][1] < bound
         THEN <<seq[1]>> \o StartsBefore(Tail(seq), Tail(ts), bound)
         ELSE StartsBefore(Tail(seq), Tail(ts), bound)

RECURSIVE StartsNotBefore(_, _, _)
StartsNotBefore(seq, ts, bound) ==
    IF Len(seq) = 0 THEN <<>>
    ELSE IF ts[1][1] >= bound
         THEN <<seq[1]>> \o StartsNotBefore(Tail(seq), Tail(ts), bound)
         ELSE StartsNotBefore(Tail(seq), Tail(ts), bound)

(* The stitch boundary of the step just taken: frame_start - margin *)
StitchBound == frame_start' - (FrameLenMs * WordUpdateMarginPct) \div 100

(* word_seq / word_ts_seq after the step are the history before the       *)
(* boundary followed by the new decode from the boundary on.               *)
StitchedByRule ==
    /\ word_seq' = StartsBefore(word_seq, word_ts_seq, StitchBound)
                     \o StartsNotBefore(last'.words, last'.timestamps, StitchBound)
    /\ word_ts_seq' = StartsBefore(word_ts_seq, word_ts_seq, StitchBound)
                     \o StartsNotBefore(last'.timestamps, last'.timestamps, StitchBound)

(* C9 as stated: update_word_and_word_ts on a non-empty history leaves     *)
(* exactly the history words that start before frame_start - margin,       *)
(* followed by the words of the new decode that start at or after it, for  *)
(* every new decode output.                                                *)
C9_StitchReplacesTail ==
    [][(last'.updated /\ Len(word_seq) > 0) => StitchedByRule]_vars

(* C10: word_seq and word_ts_seq always have the same length, the words    *)
(* and timestamps a decode step returns have the same length, and a        *)
(* length mismatch raises an error with word_seq and word_ts_seq untouched.*)
C10_WordsAndTimestampsInLockstep ==
    /\ [](/\ Len(word_seq) = Len(word_ts_seq)
          /\ (last.op = "streaming_step" /\ last.error = "none")
                 => Len(last.words) = Len(last.timestamps)
          /\ (last.op = "streaming_step" /\ Len(last.frame) = CHUNK_SIZE
                  /\ ~last.raw.fail
                  /\ Len(last.raw.words) # Len(last.raw.word_ts))
                 => last.error = "words_word_ts_mismatch")
    /\ [][(last'.error \in {"words_word_ts_mismatch", "mismatched_asr_results"})
              => UNCHANGED <<word_seq, word_ts_seq>>]_vars

C10_Witness ==
    /\ last.op = "streaming_step" /\ last.error = "words_word_ts_mismatch"
    /\ Len(last.raw.words) # Len(last.raw.word_ts)
    /\ Len(word_seq) > 0 /\ Len(word_seq) = Len(word_ts_seq)

(* C11: from any reachable session state, reset() leaves word_seq and      *)
(* word_ts_seq empty, audio_buffer all zeros with its length unchanged,    *)
(* and frame_index and frame_start equal to 0.                             *)
C11_ResetClearsSession ==
    [][(last'.op = "reset")
           => /\ word_seq' = <<>> /\ word_ts_seq' = <<>>
              /\ Len(audio_buffer') = Len(audio_buffer)
              /\ \A k \in 1..Len(audio_buffer') : audio_buffer'[k] = 0
              /\ frame_index' = 0 /\ frame_start' = 0]_vars

(* a reset of a session that held words, audio and a non-zero frame_start *)
C11_Witness ==
    /\ last.op = "reset" /\ last.old_len > 0
    /\ last.frame # Zeros(audio_buffer_length)
    /\ word_seq = <<>> /\ audio_buffer = Zeros(audio_buffer_length)
    /\ frame_index = 0

----------------------------------------------------------------------------
(* Properties of audio_queue_launcher, checked under SpecLauncher *)

C13_ResetDropsPendingAudio ==
    /\ last.op = "reset" => audio_queue_buffer = <<>>
    /\ (last.op = "streaming_step" /\ pc = "launcher")
           => \A k \in 1..Len(last.frame) : last.frame[k] > hist.reset_mark

(* C14 as stated: the launcher hands the received samples to               *)
(* streaming_step in arrival order, in frames of exactly CHUNK_SIZE        *)
(* samples, none dropped, duplicated or reordered, and on return fewer     *)
(* than CHUNK_SIZE samples are left pending.                               *)
C14_FramesInOrderNoFullFramePending ==
    /\ hist.stepped \o audio_queue_buffer = NewSamples(0, hist.fed)
    /\ last.op = "streaming_step" => Len(last.frame) = CHUNK_SIZE
    /\ last.op = "launcher_return" => hist.pending < CHUNK_SIZE

----------------------------------------------------------------------------
(* Properties of the feature frame bufferers, checked under SpecBufferer *)

ReaderRest == IF fb.frame_reader = <<>> THEN <<>>
              ELSE [k \in 1..Len(fb.frame_reader[1]) |-> fb.frame_reader[1][k].frame]

(* C15: get_batch_frames delivers the frames of the frame reader in order, *)
(* each exactly once, in batches of exactly batch_size except the last     *)
(* non-empty batch, which holds the remaining frames; finding the reader   *)
(* exhausted sets signal_end; once signal_end is set, every later          *)
(* get_batch_frames / get_buffers_batch call on that reader returns an     *)
(* empty batch, and signal_end stays set across these calls and reset().   *)
C15_BatchesInOrderThenSignalEnd ==
    /\ [](/\ fb.frame_reader # <<>> => fbret.delivered \o ReaderRest = fbret.reader_all
          /\ fb.signal_end => ReaderRest = <<>>
          /\ (fbret.op \in {"get_batch_frames", "get_buffers_batch"}
                  /\ fbret.error = "none" /\ ~fbret.was_signal_end)
                 => /\ Len(fbret.batch_frames) <= batch_size
                    /\ Len(fbret.batch_frames) < batch_size
                           => (fb.signal_end /\ ReaderRest = <<>>)
                    /\ Len(fbret.batch_frames) = batch_size => ~fb.signal_end)
    /\ [][(fb.signal_end
              /\ fbret'.op \in {"get_batch_frames", "get_buffers_batch", "reset"})
             => /\ fb'.signal_end
                /\ fbret'.batch_frames = <<>> /\ fbret'.frame_buffers = <<>>]_vars

(* a reader of three frames was delivered as a batch of two and a batch of *)
(* one, and a later call returned an empty batch                           *)
C15_Witness ==
    /\ fbret.op = "get_batch_frames" /\ fbret.was_signal_end
    /\ fb.signal_end /\ fbret.batch_frames = <<>>
    /\ Len(fbret.reader_all) = 3 /\ fbret.delivered = fbret.reader_all

(* C16: after any number of frames pushed through get_frame_buffers, the   *)
(* buffer of a FeatureFrameBufferer, and the buffer of every sample of a   *)
(* BatchedFeatureFrameBufferer, has the shape [n_feat x total_buffer_len]  *)
(* it had at construction, and so has every returned buffer.               *)
C16_BufferShapeIsKept ==
    /\ Shape(fb.buffer) = ShapeOf(n_feat, total_buffer_len)
    /\ \A k \in 1..Len(fb.frame_buffers) :
           Shape(fb.frame_buffers[k].val) = ShapeOf(n_feat, total_buffer_len)
    /\ \A k \in 1..Len(fbret.frame_buffers) :
           Shape(Deref(fb, fbret.frame_buffers[k])) = ShapeOf(n_feat, total_buffer_len)
    /\ \A idx \in 1..batch_size :
           Shape(bfb.buffer[idx]) = ShapeOf(n_feat, total_buffer_len)
    /\ \A k \in 1..Len(bfb.frame_buffers) :
           /\ Len(bfb.frame_buffers[k]) = 1
           /\ Shape(bfb.frame_buffers[k][1].val) = ShapeOf(n_feat, total_buffer_len)

(* more columns were pushed than the buffer holds *)
C16_Witness ==
    /\ fbret.op \in {"get_frame_buffers", "get_buffers_batch"}
    /\ Len(fbret.frame_buffers) > 0
    /\ Len(fbret.pushed) * fb_n_frame_len > total_buffer_len

(* The last total_buffer_len columns of silence followed by the first k    *)
(* frames of `frames`                                                      *)
RECURSIVE ConcatRow(_, _, _)
ConcatRow(frames, k, r) ==
    IF k = 0 THEN [c \in 1..total_buffer_len |-> ZERO_LEVEL_SPEC_DB_VAL]
    ELSE ConcatRow(frames, k - 1, r) \o frames[k][r]
LastColumns(row, n) == SubSeq(row, Len(row) - n + 1, Len(row))
ExpectedBuffer(frames, k) ==
    [r \in 1..n_feat |-> LastColumns(ConcatRow(frames, k, r), total_buffer_len)]

(* C17: the buffer get_frame_buffers returns for the k-th frame pushed     *)
(* since reset is the last total_buffer_len columns of the silence fill    *)
(* followed by f1 .. fk, and a returned buffer keeps its content whatever  *)
(* is pushed or reset later.                                               *)
C17_ReturnedBufferIsSuffixAndCopy ==
    /\ (fbret.op \in {"get_frame_buffers", "get_buffers_batch"}
            /\ fbret.error = "none")
           => \A j \in 1..Len(fbret.frame_buffers) :
                 Deref(fb, fbret.frame_buffers[j]) =
                     ExpectedBuffer(fbret.pushed,
                         Len(fbret.pushed) - Len(fbret.frame_buffers) + j)
    /\ \A k \in 1..Len(fbret.kept) :
           Deref(fb, fbret.kept[k]) = fbret.kept[k].val

(* buffers were returned, then the bufferer was reset and a batch of       *)
(* frames was pushed                                                       *)
C17_Witness ==
    /\ fbret.op = "get_frame_buffers" /\ Len(fbret.frame_buffers) = batch_size
    /\ Len(fbret.kept) > 0 /\ fbret.kept # fbret.frame_buffers
    /\ Len(fbret.pushed) = batch_size

----------------------------------------------------------------------------
(* C18: update_audio_frame_input takes None or a frame of at most          *)
(* n_frame_len samples, pads it with zeros on the right to n_frame_len,    *)
(* shifts the buffer left by n_frame_len and puts the padded frame in the  *)
(* trailing samples, the buffer keeping its length of                      *)
(* 2*n_frame_overlap + n_frame_len; a longer frame raises and leaves the   *)
(* buffer and buffer_start as they were.                                   *)
C18_FrameInputPadsShiftsOrRaises ==
    [][last'.op = "run_step" =>
         LET f == last'.frame
             padded == [k \in 1..n_frame_len |->
                           IF k <= Len(f) THEN f[k] ELSE 0]
             keep == 2 * n_frame_overlap
         IN  IF Len(f) > n_frame_len
             THEN /\ last'.error = "frame_length"
                  /\ UNCHANGED <<audio_buffer, buffer_start>>
             ELSE /\ last'.error # "frame_length"
                  /\ Len(audio_buffer') = 2 * n_frame_overlap + n_frame_len
                  /\ \A k \in 1..keep :
                         audio_buffer'[k] = audio_buffer[k + n_frame_len]
                  /\ \A k \in 1..n_frame_len :
                         audio_buffer'[keep + k] = padded[k]]_vars

(* a short frame was padded and written behind the samples of an earlier   *)
(* frame                                                                   *)
C18_Witness ==
    /\ last.op = "run_step" /\ last.error = "none"
    /\ Len(last.frame) > 0 /\ Len(last.frame) < n_frame_len
    /\ audio_buffer[2 * n_frame_overlap] # 0
    /\ audio_buffer[2 * n_frame_overlap + 1] = last.frame[1]
    /\ audio_buffer[audio_buffer_length] = 0

(* a frame of more than n_frame_len samples was refused after an earlier   *)
(* frame had been written                                                  *)
C18_WitnessLongFrame ==
    /\ last.op = "run_step" /\ last.error = "frame_length"
    /\ Len(last.frame) > n_frame_len
    /\ audio_buffer # Zeros(audio_buffer_length)
    /\ buffer_start # None

----------------------------------------------------------------------------
(* Length of span k of a list, and the distance from its start to the     *)
(* start of the next span                                                  *)
SpanLen(ts, k) == ts[k][2] - ts[k][1]
DistToNext(ts, k) == ts[k + 1][1] - ts[k][1]
FixCalled == wt.op \in {"fix_word_ts", "compensate_word_ts_list"}

C19_WitnessOffline ==
    /\ wt.op = "compensate_word_ts_list" /\ wt.frame_VAD # None
    /\ \E k \in 1..(Len(wt.input) - 1) :
          /\ SpanLen(wt.input, k) < SpanLen(wt.ret, k)
          /\ SpanLen(wt.ret, k) < max_word_ts_length_in_sec
          /\ SpanLen(wt.ret, k) < DistToNext(wt.input, k) - 10

----------------------------------------------------------------------------
(* The runs of a list of spans: a break is a position whose gap to the     *)
(* next span, next start - previous end, is above the threshold.           *)
Breaks(ts, thr) == {k \in 1..(Len(ts) - 1) : ts[k + 1][1] - ts[k][2] > thr}
NthSmallest(S, j) == CHOOSE x \in S : Cardinality({y \in S : y < x}) = j - 1
RunFirst(ts, thr, j) == NthSmallest({1} \cup {k + 1 : k \in Breaks(ts, thr)}, j)
RunLast(ts, thr, j) == NthSmallest(Breaks(ts, thr) \cup {Len(ts)}, j)
MergeThreshold ==
    IF wt.op = "get_VAD_from_ASR" THEN asr_based_vad_threshold
    ELSE nonspeech_threshold

(* C20: get_VAD_from_ASR (before fix_word_ts) and                          *)
(* get_speech_labels_from_decoded_prediction turn time-ordered word spans  *)
(* into one span per maximal run of words whose consecutive gaps are <=    *)
(* the threshold, from the start of the run's first word to the end of its *)
(* last word; adjacent output spans are more than the threshold apart, and *)
(* the caller's list is as it was.                                         *)
C20_MergedSpansAreMaximalRuns ==
    wt.op \in {"get_VAD_from_ASR", "get_speech_labels_from_decoded_prediction"}
    => /\ wt.word_ts = wt.input
       /\ IF wt.input = <<>> THEN wt.merged = <<>>
          ELSE /\ Len(wt.merged)
                     = Cardinality(Breaks(wt.input, MergeThreshold)) + 1
               /\ \A j \in 1..Len(wt.merged) :
                     wt.merged[j]
                        = <<wt.input[RunFirst(wt.input, MergeThreshold, j)][1],
                            wt.input[RunLast(wt.input, MergeThreshold, j)][2]>>
               /\ \A j \in 1..(Len(wt.merged) - 1) :
                     wt.merged[j + 1][1] - wt.merged[j][2] > MergeThreshold

(* three words became two segments, two of the words being exactly the     *)
(* threshold apart                                                         *)
C20_Witness ==
    /\ wt.op = "get_VAD_from_ASR"
    /\ Len(wt.input) = 3 /\ Len(wt.merged) = 2
    /\ \E k \in 1..2 :
          wt.input[k + 1][1] - wt.input[k][2] = asr_based_vad_threshold

----------------------------------------------------------------------------
(* A streaming step whose run_step completed: `last` holds the decoder's   *)
(* raw output and what run_ASR_decoder_step returned, buffer_start is the  *)
(* one the step set.                                                       *)
DecodeReturned ==
    /\ last.op = "streaming_step" /\ last.error = "none"
    /\ buffer_start # None
DecodeOffset == buffer_start[1] - OnsetDelayMs

(* C21 as stated: the pairs returned are exactly those whose end plus      *)
(* offset is > 0, in order, each with start and end shifted by offset,     *)
(* with offset = buffer_start - onset_delay_in_sec.                        *)
C21_OffsetShiftsAndFilters ==
    DecodeReturned =>
        LET KeptIdx == {k \in 1..Len(last.raw.words) :
                           last.raw.word_ts[k][2] + DecodeOffset > 0}
        IN  /\ Len(last.words) = Cardinality(KeptIdx)
            /\ Len(last.timestamps) = Cardinality(KeptIdx)
            /\ \A j \in 1..Cardinality(KeptIdx) :
                  LET k == NthSmallest(KeptIdx, j)
                  IN  /\ last.words[j] = last.raw.words[k]
                      /\ last.timestamps[j]
                            = <<last.raw.word_ts[k][1] + DecodeOffset,
                                last.raw.word_ts[k][2] + DecodeOffset>>

(* C21, amended: the pairs returned are exactly those whose end plus       *)
(* offset, rounded to 2 decimals, is > 0, in their original order, each    *)
(* with start and end shifted by offset and rounded to 2 decimals; the     *)
(* others are discarded together with their word; offset = buffer_start -  *)
(* onset_delay_in_sec.                                                     *)
C21_OffsetShiftsRoundsAndFilters ==
    DecodeReturned =>
        LET KeptIdx == {k \in 1..Len(last.raw.words) :
                           Round2(last.raw.word_ts[k][2] + DecodeOffset) > 0}
        IN  /\ Len(last.words) = Cardinality(KeptIdx)
            /\ Len(last.timestamps) = Cardinality(KeptIdx)
            /\ \A j \in 1..Cardinality(KeptIdx) :
                  LET k == NthSmallest(KeptIdx, j)
                  IN  /\ last.words[j] = last.raw.words[k]
                      /\ last.timestamps[j]
                            = <<Round2(last.raw.word_ts[k][1] + DecodeOffset),
                                Round2(last.raw.word_ts[k][2] + DecodeOffset)>>

(* the decoder returned a word whose shifted end is not above 0, and the   *)
(* step returned no word                                                   *)
C21_Witness ==
    /\ DecodeReturned
    /\ Len(last.raw.words) > 0 /\ Len(last.raw.words) = Len(last.raw.word_ts)
    /\ last.raw.word_ts[1][2] + DecodeOffset <= 0
    /\ last.words = <<>> /\ last.timestamps = <<>>

(* the decoder returned a word that was kept, shifted and rounded          *)
C21_WitnessKept ==
    /\ DecodeReturned
    /\ Len(last.raw.words) > 0 /\ Len(last.words) = Len(last.raw.words)
    /\ last.timestamps[1][2] # last.raw.word_ts[1][2] + DecodeOffset
    /\ DecodeOffset # 0

----------------------------------------------------------------------------
----------------------------------------------------------------------------
Samples == 1..batch_size
IndexSet(idx) == bfb.signal_end_index[idx] # None

----------------------------------------------------------------------------
(* C24: with enforce_real_time, a streaming_step that completes returns    *)
(* no earlier than frame_len after it started: it sleeps frame_len -       *)
(* elapsed when elapsed < frame_len; with enforce_real_time off, or        *)
(* elapsed >= frame_len, it does not sleep.                                *)
C24_RealTimeStepTakesFrameLen ==
    (last.op = "streaming_step" /\ rt.completed) =>
        IF rt.enforce_real_time /\ rt.ETA < FrameLenMs
        THEN /\ rt.slept = FrameLenMs - rt.ETA
             /\ rt.returned_after >= FrameLenMs
        ELSE /\ rt.slept = 0
             /\ rt.returned_after = rt.ETA

(* a step that took less than frame_len slept for the rest *)
C24_Witness ==
    /\ last.op = "streaming_step" /\ rt.completed /\ rt.enforce_real_time
    /\ rt.ETA > 0 /\ rt.ETA < FrameLenMs
    /\ rt.slept = FrameLenMs - rt.ETA

(* a step that took less than frame_len with enforce_real_time off         *)
(* returned at once                                                        *)
C24_WitnessNotEnforced ==
    /\ last.op = "streaming_step" /\ rt.completed /\ ~rt.enforce_real_time
    /\ rt.ETA < FrameLenMs /\ rt.slept = 0 /\ rt.returned_after = rt.ETA

----------------------------------------------------------------------------
(* The cell tracked while the table is built *)

(* Cells of the table of X and Y that hold the longest run length *)
MaxRunCells(X, Y) ==
    UNION {{c \in (0..Len(X)) \X (0..Len(Y)) :
               LCSuffCell(X, Y, c[1], c[2]) = longest} :
           longest \in {MaxRun(X, Y)}}

(* c comes no later than d in the row-major scan *)
RowMajorLeq(c, d) == c[1] < d[1] \/ (c[1] = d[1] /\ c[2] <= d[2])

TrackedCell == <<ret.lcs.i_star, ret.lcs.j_star>>

(* C25 as stated: the tracked run i_star, j_star, len_star is the longest *)
(* diagonal run and, among the cells that hold the maximal length, it is   *)
(* the first one of the row-major scan.                                    *)
C25_TracksFirstLongestRun ==
    (LcsCalled /\ MaxRun(ret.X, data) > 0) =>
        /\ ret.lcs.len_star = MaxRun(ret.X, data)
        /\ TrackedCell \in MaxRunCells(ret.X, data)
        /\ \A c \in MaxRunCells(ret.X, data) : RowMajorLeq(TrackedCell, c)

(* C25: the tracked run i_star, j_star, len_star is the longest run of the *)
(* table and, among the cells that hold the maximal length, it is the last *)
(* one of the row-major scan (largest row, then largest column); with no   *)
(* common token the tracked cell stays (0, 0, 0).                          *)
C25_TracksLastLongestRun ==
    LcsCalled =>
        /\ ret.lcs.len_star = MaxRun(ret.X, data)
        /\ IF MaxRun(ret.X, data) = 0
           THEN TrackedCell = <<0, 0>>
           ELSE /\ TrackedCell \in MaxRunCells(ret.X, data)
                /\ \A c \in MaxRunCells(ret.X, data) :
                      RowMajorLeq(c, TrackedCell)

(* Two runs of the maximal length end in different rows, the later is kept *)
C25_Witness ==
    /\ LcsCalled /\ MaxRun(ret.X, data) > 0
    /\ \E c, d \in MaxRunCells(ret.X, data) : c[1] < d[1] /\ d = TrackedCell
    /\ ret.lcs.len_star = MaxRun(ret.X, data)

----------------------------------------------------------------------------
(* The match selected by the backward search of a partial merge *)

PartialMerge == LcsCalled /\ ~ret.lcs.is_complete_merge

SetMin(S) == CHOOSE x \in S : \A y \in S : x <= y

(* C26: in a partial merge with a common token, the match selected by the  *)
(* backward search has the maximum diagonal length occurring anywhere in   *)
(* the table and, among the cells with that length, the smallest column.   *)
C26_PartialSelectsLeftmostLongest ==
    (PartialMerge /\ MaxRun(ret.X, data) > 0) =>
        /\ ret.lcs.max_j = MaxRun(ret.X, data)
        /\ ret.lcs.max_j_idx =
              SetMin({c[2] : c \in MaxRunCells(ret.X, data)})

(* C27: in a partial merge whose selected run is not longer than           *)
(* MIN_MERGE_SUBSEQUENCE_LEN the result has col = 0 and slice_len = 0, and *)
(* lcs_alignment_merge_buffer cuts data at 0 and appends every token of it. *)
C27_ShortPartialRunDropsNothing ==
    (PartialMerge /\ ret.lcs.max_j <= MIN_MERGE_SUBSEQUENCE_LEN) =>
        /\ ret.lcs.j = 0
        /\ ret.lcs.slice_len = 0
        /\ op = "merge" =>
              /\ ret.slice_idx = 0
              /\ ret.out = ret.buffer_in \o data
              /\ buffer = ret.out

(* A run of one token was selected at a column of data and is not cut off *)
C27_Witness ==
    /\ op = "merge" /\ PartialMerge
    /\ ret.lcs.max_j = MIN_MERGE_SUBSEQUENCE_LEN
    /\ ret.lcs.max_j_idx >= 1 /\ Len(data) >= 2
    /\ ret.lcs.j = 0 /\ ret.lcs.slice_len = 0
    /\ buffer = ret.buffer_in \o data

----------------------------------------------------------------------------
(* The table returned by longest_common_subsequence_merge *)

(* Length of the longest common suffix of X[:i] and Y[:j] *)
CommonSuffixLen(X, Y, i, j) ==
    SetMax({k \in 0..Min(i, j) :
               \A d \in 1..k : X[i - k + d] = Y[j - k + d]})

(* C28: the returned table has m+1 rows of n+1 cells; a cell is 0 in row 0, *)
(* in column 0 and where X[i-1] # Y[j-1], and one more than its upper-left *)
(* neighbour elsewhere; each cell is the length of the longest common      *)
(* suffix of X[:i] and Y[:j].                                              *)
C28_TableIsCommonSuffixLength ==
    LcsCalled =>
        LET L == ret.lcs.LCSuff
            m == Len(ret.X)
            n == Len(data)
        IN  /\ DOMAIN L = 0..m
            /\ \A i \in 0..m :
                  /\ DOMAIN L[i] = 0..n
                  /\ \A j \in 0..n :
                        /\ L[i][j] =
                              IF i = 0 \/ j = 0 THEN 0
                              ELSE IF ret.X[i] # data[j] THEN 0
                              ELSE L[i - 1][j - 1] + 1
                        /\ L[i][j] = CommonSuffixLen(ret.X, data, i, j)

(* A table that is not square, with a run of two tokens and a run that a  *)
(* mismatch ends                                                           *)
C28_Witness ==
    /\ LcsCalled /\ Len(ret.X) # Len(data)
    /\ \E i \in 1..Len(ret.X), j \in 1..Len(data) : ret.lcs.LCSuff[i][j] = 2
    /\ \E i \in 2..Len(ret.X), j \in 2..Len(data) :
          /\ ret.lcs.LCSuff[i - 1][j - 1] >= 1
          /\ ret.lcs.LCSuff[i][j] = 0

----------------------------------------------------------------------------
(* The position map of BatchedFrameASRRNNT *)

(* The last call was a _get_batch_preds call with a non-empty sub-batch,   *)
(* stateful decoding and hypotheses of an earlier call                     *)
StatefulCallAfterFirst ==
    /\ fbret.op = "_get_batch_preds"
    /\ rnnt.stateful_decoding
    /\ fbret.previous_before # <<>>

IsKey(keys, g) == \E k \in 1..Len(keys) : keys[k] = g
PositionIn(keys, g) == CHOOSE k \in 1..Len(keys) : keys[k] = g

(* Sample g was in the previous sub-batch, is in this one, and its reader  *)
(* was not set in between                                                  *)
StillActive(g) ==
    /\ IsKey(fbret.new_batch_keys, g)
    /\ IsKey(fbret.prev_batch_keys, g)
    /\ g \notin fbret.readers_set_since

(* batch_index_map[g] is the position of g in the previous sub-batch and   *)
(* previous_hypotheses holds there the hypothesis decoded for g            *)
MapPointsToOwnHypothesis(g) ==
    /\ fbret.map_before[g] = PositionIn(fbret.prev_batch_keys, g)
    /\ fbret.map_before[g] <= Len(fbret.previous_before[1])
    /\ fbret.previous_before[1][fbret.map_before[g]].sample = g

C29_WitnessFirstShrink ==
    /\ StatefulCallAfterFirst /\ ~fbret.reader_set_after_decode
    /\ fbret.new_batch_keys = <<2>> /\ fbret.prev_batch_keys = <<1, 2>>
    /\ fbret.map_before[2] = 2 /\ rnnt.batch_index_map[2] = 1
    /\ fbret.best_hyp[1].continued = 2

----------------------------------------------------------------------------
(* What a completed streaming_step does to the transcript *)

(* This step is a streaming_step that returned without raising *)
StepCompleted == last'.op = "streaming_step" /\ last'.error = "none"

(* word_seq and word_ts_seq after the step are the stitch of those before  *)
(* it with the decode output of the step                                   *)
StitchedWithDecodeOutput ==
    \E st \in {update_word_and_word_ts(word_seq, word_ts_seq, last'.words,
                   last'.timestamps, frame_start')} :
        /\ word_seq' = st.word_seq
        /\ word_ts_seq' = st.word_ts_seq

C30_WitnessStitched ==
    /\ last.op = "streaming_step" /\ last.error = "none"
    /\ last.diar_hyp # <<>> /\ last.updated /\ Len(last.words) > 0
    /\ word_seq = last.words /\ frame_index = 1

----------------------------------------------------------------------------
(* What infer_logits leaves behind *)

(* infer_logits has returned: get_buffers_batch returned no buffers *)
InferLogitsFinished ==
    /\ fbret.op = "infer_logits"
    /\ ~fbret.in_infer_logits
    /\ fbret.error = "none"

(* The number of predictions stored for sample idx is its signal_end_index *)
PredsCountIsSignalEndIndex(idx) ==
    /\ bfb.signal_end_index[idx] # <<>>
    /\ Len(rnnt.all_preds[idx]) = bfb.signal_end_index[idx][1]

(* The guard a_idx < signal_end_idx of transcribe passes every stored entry *)
GuardKeepsAllStored(idx) ==
    /\ bfb.signal_end_index[idx] # <<>>
    /\ \A a_idx \in 0..Len(rnnt.all_preds[idx]) - 1 :
          a_idx < bfb.signal_end_index[idx][1]

(* What the loop of infer_logits has still to do: the frames the readers   *)
(* have still to yield and the samples whose signal has not ended.  An     *)
(* iteration that stays in the loop takes a frame from, or ends, every     *)
(* sample that had not ended.                                              *)
RECURSIVE SumOver(_, _)
SumOver(f, k) == IF k = 0 THEN 0 ELSE f[k] + SumOver(f, k - 1)

LoopMeasure ==
    SumOver([idx \in 1..batch_size |->
                (IF bfb.all_frame_reader[idx] = <<>> THEN 0
                 ELSE Len(bfb.all_frame_reader[idx][1]))
                + (IF bfb.signal_end[idx] THEN 0 ELSE 1)], batch_size)

LoopMeasureDecreases ==
    fbret.in_infer_logits /\ fbret'.in_infer_logits
        => LoopMeasure' < LoopMeasure /\ LoopMeasure' >= 0

----------------------------------------------------------------------------
(* What an AudioFeatureIterator returns *)

(* Column j of the concatenation of the frames returned so far *)
ReturnedColumn(r, j) ==
    afi.returned[((j - 1) \div afi._feature_frame_len) + 1]
        .frame[r][((j - 1) % afi._feature_frame_len) + 1]

(* Every feature column is in the concatenation of the returned frames, at *)
(* its place                                                               *)
ReturnedCoverFeatures ==
    /\ Len(afi.returned) * afi._feature_frame_len >= afi._features_len
    /\ \A r \in 1..n_feat, j \in 1..afi._features_len :
          ReturnedColumn(r, j) = afi._features[r][j]

(* The iteration is over: a call raised, or the next one raises            *)
IterationOver == afi.raised # "none" \/ ~afi.output

(* C32: the iterator returns at most features_len \div w + 1 frames, every *)
(* returned frame has exactly w columns, and when the iteration is over    *)
(* the concatenation of the returned frames, truncated to features_len     *)
(* columns, is the feature matrix.                                         *)
C32_FramesCoverFeatures ==
    /\ Len(afi.returned) <= (afi._features_len \div afi._feature_frame_len) + 1
    /\ \A k \in 1..Len(afi.returned), r \in 1..n_feat :
          Len(afi.returned[k].frame[r]) = afi._feature_frame_len
    /\ IterationOver => ReturnedCoverFeatures

----------------------------------------------------------------------------
(* The timestamps after run_step *)

(* The last call was a run_step that returned *)
RunStepReturned == online.op = "run_step" /\ online.error = "none"

TimestampsFollowStream ==
    /\ online.buffer_end = Some(online.frame_len * online.received)
    /\ online.buffer_end[1] - online.buffer_start[1]
           = 2 * online.frame_overlap + online.frame_len
    /\ online.frame_start - online.buffer_start[1] = online.frame_overlap
    /\ online.before # None =>
          /\ online.buffer_start[1] - online.before[1].buffer_start
                 = online.frame_len
          /\ online.frame_start - online.before[1].frame_start
                 = online.frame_len

(* C33: after every run_step since the last reset, for every configured    *)
(* frame_overlap, buffer_end is frame_len times the number of frames       *)
(* received, buffer_end - buffer_start is 2*frame_overlap + frame_len,     *)
(* frame_start - buffer_start is frame_overlap, and buffer_start and       *)
(* frame_start are frame_len later than after the step before.             *)
C33_TimestampsFollowStream == RunStepReturned => TimestampsFollowStream

(* The first run_step of a session with frame_len 1 s and frame_overlap    *)
(* 0.5 s has returned: the buffer is said to span 0 s to 2 s of a stream   *)
(* of which 1 s was received                                               *)
C33_Witness ==
    /\ RunStepReturned
    /\ online.frame_len = 1000 /\ online.frame_overlap = 500
    /\ online.received = 1 /\ online.completed = 1
    /\ online.buffer_start = Some(0)
    /\ online.buffer_end = Some(2000)
    /\ online.frame_start = 0

(* F = 3 feature columns in frames of 2: the iteration is over after one   *)
(* frame                                                                   *)
C32_Witness ==
    /\ afi._features_len = 3 /\ afi._feature_frame_len = 2
    /\ afi.vad_mask # <<>>
    /\ afi.raised = "StopIteration"
    /\ Len(afi.returned) = 1
    /\ ~ReturnedCoverFeatures

----------------------------------------------------------------------------
(* What get_word_dict_seq_list returns *)

(* The anchor time of word j lies inside segment k of the labels *)
AnchorInside(j, k) ==
    LET word_pos == get_word_timestamp_anchor(wt.word_ts_hyp[j],
                                              wt.word_ts_anchor_pos)
    IN  wt.diar_hyp[k][1] <= word_pos /\ word_pos <= wt.diar_hyp[k][2]

WordDictReturned == wt.op = "get_word_dict_seq_list"

(* C34: the output has one entry per word, in the order of the words, and  *)
(* a word whose anchor time lies inside a segment has the speaker label of *)
(* a segment that holds its anchor time.                                   *)
C34_WordsGetTheirSegmentsSpeaker ==
    WordDictReturned =>
        /\ Len(wt.ret) = Len(wt.word_hyp)
        /\ \A j \in 1..Len(wt.ret) :
              /\ wt.ret[j].word = wt.word_hyp[j]
              /\ (\E k \in 1..Len(wt.diar_hyp) : AnchorInside(j, k))
                    => \E k \in 1..Len(wt.diar_hyp) :
                          /\ AnchorInside(j, k)
                          /\ wt.ret[j].speaker_label = wt.diar_hyp[k][3]

(* A word in the first and a word in the third of three segments: the      *)
(* second word has the speaker of the second segment                       *)
C34_Witness ==
    /\ WordDictReturned
    /\ wt.diar_hyp = <<<<0, 1000, "speaker_0">>, <<1000, 2000, "speaker_1">>,
                       <<2000, 3000, "speaker_0">>>>
    /\ wt.word_ts_hyp = <<<<500, 700>>, <<2500, 2700>>>>
    /\ wt.word_ts_anchor_pos = "start"
    /\ Len(wt.ret) = 2
    /\ wt.ret[1].speaker_label = "speaker_0"
    /\ wt.ret[2].speaker_label = "speaker_1"

----------------------------------------------------------------------------
(* What greedy_merge decodes *)

(* Every maximal run of equal consecutive ids collapsed to one id *)
CollapseRuns(preds) ==
    SelectSeq([k \in 1..Len(preds) |-> <<k, preds[k]>>],
              LAMBDA e : e[1] = 1 \/ preds[e[1] - 1] # e[2])

(* CollapseRuns without the blank ids, as ids *)
CollapsedWithoutBlanks(preds) ==
    LET kept == SelectSeq(CollapseRuns(preds), LAMBDA e : e[2] # blank_id)
    IN  [k \in 1..Len(kept) |-> kept[k][2]]

(* C35: greedy_merge(preds) decodes the ids left when every maximal run of *)
(* equal consecutive ids of preds is collapsed to one id and the blank ids *)
(* are then removed; no decoded id is the blank.                           *)
C35_GreedyMergeCollapsesThenDropsBlanks ==
    op = "greedy_merge" =>
        /\ ret.out = CollapsedWithoutBlanks(data)
        /\ \A k \in 1..Len(ret.out) : ret.out[k] # blank_id

(* Equal tokens on both sides of a blank, the second one repeated: both    *)
(* are kept, the repetition is not                                         *)
C35_Witness ==
    /\ op = "greedy_merge"
    /\ data = <<1, blank_id, 1, 1>>
    /\ ret.out = <<1, 1>>

====
